---- MODULE Spec2Model ----
(***************************************************************************)
(* Frame diffing and rendering pipeline of tview: the generation-tagged    *)
(* frame (frame.go), the write-capturing surface, and the differencing     *)
(* blitter inside Application.draw (application.go).                        *)
(*                                                                         *)
(* Abstractions:                                                           *)
(*  - Text is a string of self-delimiting glyphs; the external             *)
(*    text-measurement service is the table StringWidth.                   *)
(*  - tcell.Style is an opaque value; StyleDefault is the zero style.      *)
(*  - The 64-bit FNV signatures are modelled collision-free: a signature   *)
(*    is the tuple of the values that are mixed into the hash.             *)
(*  - The generation counter is a GenBits-bit unsigned integer.            *)
(*  - The terminal driver is a simulated grid of cells.                    *)
(***************************************************************************)
EXTENDS Integers, Sequences, FiniteSets, TLC

\* ------------------------------------------------------------------ bounds

\* Width of the generation counter in bits (uint32 in the source, scaled down).
GenBits == 2
\* Frame-level specification, long runs: many generations (past the wraparound
\* of the counter), few writes.
MaxEpoch == 5
MaxGenWrites == 2
\* Frame-level specification, dense runs: few generations, many writes.
MaxFrameEpoch == 1
MaxFrameWrites == 3
\* Dimensions <<width, height>> of the frame in the long and in the dense runs.
GenFrameSize == << 2, 2 >>
DenseFrameSize == << 3, 1 >>

\* Application-level specification: draw passes of one run, and its inputs: widget
\* writes (Clear() included) and external events (resize, Sync, SetRoot) together.
MaxPasses == 3
MaxInputs == 3
\* Terminal sizes <<width, height>> the application sees.
AppSizes == {<< 3, 1 >>, << 2, 2 >>, << 0, 1 >>}

\* Clipping-surface specification: dimensions of the frame and writes of one run.
ClipFrameSize == << 3, 2 >>
MaxClipWrites == 2

\* Frame-resize specification: first size, and calls per run.
ResizeFrameSize == << 2, 1 >>
MaxResizeOps == 3

\* Event-loop specification: capacity of a.updates (100 in the source, scaled
\* down), calls of QueueUpdate/Sync per goroutine, events per run.
queueSize == 1
MaxCalls == 2
MaxEvents == 1

\* Pages specification: pages held at once, and calls per run.
MaxPages == 3
MaxPageOps == 4
\* The number of layers (and of layer names) of the Layers container.
MaxLayers == 2

\* Key/paste specification: events of one run, and strings held by pasteBuffer.
MaxPasteEvents == 5
MaxPasteLen == 2

\* DoubleClickInterval in milliseconds.
DoubleClickInterval == 500

\* Mouse specification: the latest wall-clock time in milliseconds, and the
\* calls of a.mouseCapture in one event at which it may return nil.
MaxClock == 501
MaxFires == 2

\* Form specification: the length of f.items, and the buttons AddButton creates.
MaxFormItems == 2
MaxButtons == 2

RECURSIVE Pow2(_)
Pow2(n) == IF n = 0 THEN 1 ELSE 2 * Pow2(n - 1)

GenMod == Pow2(GenBits)

NULL == [null |-> TRUE]

\* No previous widget output to compare with.
NoScript == [known |-> FALSE, writes |-> << >>]

\* ------------------------------------------------------------------ styles and text

StyleDefault == "default"
StyleBold == "bold"
Styles == {StyleDefault, StyleBold}

\* uniseg.StringWidth over the glyphs of the model.
StringWidth(text) ==
    CASE text = "" -> 0
      [] text = "z" -> 0
      [] text = "W" -> 2
      [] text = "T" -> 3
      [] OTHER -> 1

\* ------------------------------------------------------------------ frame

normalizeFrameSize(width, height) ==
    << IF width < 0 THEN 0 ELSE width, IF height < 0 THEN 0 ELSE height >>

\* The zero value cell{}.
ZeroCell ==
    [text |-> "", style |-> StyleDefault, dw |-> 0, cont |-> FALSE,
     leadX |-> 0, sig |-> << >>, gen |-> 0]

newFrame(width, height) ==
    LET n == normalizeFrameSize(width, height)
    IN  [width |-> n[1], height |-> n[2], gen |-> 0,
         cells |-> [i \in 0..(n[1] * n[2] - 1) |-> ZeroCell],
         rowGen |-> [y \in 0..(n[2] - 1) |-> 0],
         rowStart |-> [y \in 0..(n[2] - 1) |-> 0],
         rowEnd |-> [y \in 0..(n[2] - 1) |-> 0],
         clearAll |-> FALSE]

\* resize that keeps the generation of the old grid.
resizeKeepGen(f, width, height) ==
    LET n == normalizeFrameSize(width, height)
    IN  IF f.width = n[1] /\ f.height = n[2] THEN f
        ELSE [newFrame(n[1], n[2]) EXCEPT !.gen = f.gen]

resize(f, width, height) ==
    LET n == normalizeFrameSize(width, height)
    IN  IF f.width = n[1] /\ f.height = n[2] THEN f
        ELSE newFrame(n[1], n[2])

\* beginFrame that leaves the full-clear flag as it was.
beginFrameKeepClearAll(f) ==
    LET g == (f.gen + 1) % GenMod
    IN  IF g # 0
        THEN [f EXCEPT !.gen = g]
        ELSE [f EXCEPT !.gen = 1,
                       !.cells = [i \in DOMAIN f.cells |-> [f.cells[i] EXCEPT !.gen = 0]],
                       !.rowGen = [y \in DOMAIN f.rowGen |-> 0]]

beginFrameNoReset(f) ==
    LET g == (f.gen + 1) % GenMod
    IN  [f EXCEPT !.gen = IF g = 0 THEN 1 ELSE g, !.clearAll = FALSE]

beginFrame(f) ==
    LET g == (f.gen + 1) % GenMod
    IN  IF g # 0
        THEN [f EXCEPT !.gen = g, !.clearAll = FALSE]
        ELSE [f EXCEPT !.gen = 1, !.clearAll = FALSE,
                       !.cells = [i \in DOMAIN f.cells |-> [f.cells[i] EXCEPT !.gen = 0]],
                       !.rowGen = [y \in DOMAIN f.rowGen |-> 0]]

Clear(f) == [beginFrame(f) EXCEPT !.clearAll = TRUE]

\* markSpan that records the last range instead of the union of the ranges.
markSpanLast(f, y, start0, end0) ==
    IF y < 0 \/ y >= f.height \/ start0 >= end0 THEN f
    ELSE LET start == IF start0 < 0 THEN 0 ELSE start0
             end == IF end0 > f.width THEN f.width ELSE end0
         IN  IF start >= end THEN f
             ELSE [f EXCEPT !.rowGen[y] = f.gen, !.rowStart[y] = start, !.rowEnd[y] = end]

markSpan(f, y, start0, end0) ==
    IF y < 0 \/ y >= f.height \/ start0 >= end0 THEN f
    ELSE LET start == IF start0 < 0 THEN 0 ELSE start0
             end == IF end0 > f.width THEN f.width ELSE end0
         IN  IF start >= end THEN f
             ELSE IF f.rowGen[y] # f.gen
             THEN [f EXCEPT !.rowGen[y] = f.gen, !.rowStart[y] = start, !.rowEnd[y] = end]
             ELSE [f EXCEPT !.rowStart[y] = IF start < @ THEN start ELSE @,
                            !.rowEnd[y] = IF end > @ THEN end ELSE @]

widthToCellDW(width) ==
    IF width <= 0 THEN 1 ELSE IF width > 255 THEN 255 ELSE width

styleSignature(style) == << "style", style >>

cellSignature(text, style, dw, cont, leadX) ==
    << text, styleSignature(style), dw, IF cont THEN 1 ELSE 0, leadX + 1 >>

\* The tail clearing of putCellText without the write that follows it.
clearOldTail(f, x, y) ==
    LET index == y * f.width + x
        prev == f.cells[index]
    IN  IF prev.gen = f.gen /\ ~prev.cont /\ prev.dw > 1
        THEN LET oldEnd0 == x + prev.dw
                 oldEnd == IF oldEnd0 > f.width THEN f.width ELSE oldEnd0
             IN  IF x + 1 < oldEnd
                 THEN LET m == markSpan(f, y, x + 1, oldEnd)
                      IN  [m EXCEPT !.cells =
                              [i \in DOMAIN m.cells |->
                                  IF i > index /\ i < y * f.width + oldEnd
                                  THEN ZeroCell ELSE m.cells[i]]]
                 ELSE f
        ELSE f

putCellTextNoTailClear(f, x, y, text, style, dw, cont, leadX) ==
    IF x < 0 \/ y < 0 \/ x >= f.width \/ y >= f.height THEN f
    ELSE LET m == markSpan(f, y, x, x + 1)
         IN  [m EXCEPT !.cells[y * f.width + x] =
                 [text |-> text, style |-> style, dw |-> dw, cont |-> cont,
                  leadX |-> leadX,
                  sig |-> cellSignature(text, style, dw, cont, leadX),
                  gen |-> f.gen]]

putCellText(f, x, y, text, style, dw, cont, leadX) ==
    IF x < 0 \/ y < 0 \/ x >= f.width \/ y >= f.height THEN f
    ELSE LET c == clearOldTail(f, x, y)
             m == markSpan(c, y, x, x + 1)
         IN  [m EXCEPT !.cells[y * f.width + x] =
                 [text |-> text, style |-> style, dw |-> dw, cont |-> cont,
                  leadX |-> leadX,
                  sig |-> cellSignature(text, style, dw, cont, leadX),
                  gen |-> f.gen]]

\* The continuation loop started one column too far.
RECURSIVE putContinuationsFrom(_, _, _, _, _, _)
putContinuationsFrom(f, x, y, style, i, width) ==
    IF i >= width THEN f
    ELSE putContinuationsFrom(putCellText(f, x + i, y, "", style, 0, TRUE, x),
                              x, y, style, i + 1, width)

putContinuationsSkipFirst(f, x, y, style, i, width) ==
    putContinuationsFrom(f, x, y, style, i + 1, width)

\* The loop "for i := 1; i < width; i++ { putCellText(x+i, y, "", style, 0, true, x) }".
RECURSIVE putContinuations(_, _, _, _, _, _)
putContinuations(f, x, y, style, i, width) ==
    IF i >= width THEN f
    ELSE putContinuations(putCellText(f, x + i, y, "", style, 0, TRUE, x),
                          x, y, style, i + 1, width)

\* The glyph that is stored after the right-edge clipping rule.
ClippedText(f, x, text, width) == IF width > 1 /\ x = f.width - 1 THEN " " ELSE text
\* A surface that keeps the full width of a glyph at the last column.
ClippedWidthNoClip(f, x, width) == width

ClippedWidth(f, x, width) == IF width > 1 /\ x = f.width - 1 THEN 1 ELSE width

SetContent(f, x, y, text, style) ==
    LET w0 == StringWidth(text)
        w1 == IF w0 <= 0 THEN 1 ELSE w0
        t == ClippedText(f, x, text, w1)
        width == ClippedWidth(f, x, w1)
        lead == putCellText(f, x, y, t, style, widthToCellDW(width), FALSE, -1)
    IN  putContinuations(lead, x, y, style, 1, width)

rowSpan(f, y) ==
    IF y < 0 \/ y >= f.height THEN [start |-> 0, end |-> 0, ok |-> FALSE]
    ELSE IF f.rowGen[y] # f.gen THEN [start |-> 0, end |-> 0, ok |-> FALSE]
    ELSE [start |-> f.rowStart[y], end |-> f.rowEnd[y], ok |-> TRUE]

cellAtIgnoreGen(f, x, y) ==
    IF x < 0 \/ y < 0 \/ x >= f.width \/ y >= f.height THEN [c |-> ZeroCell, ok |-> FALSE]
    ELSE [c |-> f.cells[y * f.width + x], ok |-> TRUE]

cellAt(f, x, y) ==
    IF x < 0 \/ y < 0 \/ x >= f.width \/ y >= f.height THEN [c |-> ZeroCell, ok |-> FALSE]
    ELSE LET c == f.cells[y * f.width + x]
         IN  IF c.gen # f.gen THEN [c |-> ZeroCell, ok |-> FALSE]
             ELSE [c |-> c, ok |-> TRUE]

\* A comparison that also compares the generation stamps of the two cells.
cellsEqualWithGen(a, aOK, b, bOK) ==
    IF aOK # bOK THEN FALSE
    ELSE IF ~aOK THEN TRUE
    ELSE ~(a.text # b.text \/ a.style # b.style \/ a.dw # b.dw \/ a.cont # b.cont
           \/ a.leadX # b.leadX \/ a.gen # b.gen)

cellsEqual(a, aOK, b, bOK) ==
    IF aOK # bOK THEN FALSE
    ELSE IF ~aOK THEN TRUE
    ELSE ~(a.text # b.text \/ a.style # b.style \/ a.dw # b.dw \/ a.cont # b.cont
           \/ a.leadX # b.leadX)

\* captureScreen.Put: str is a sequence of grapheme clusters; the first one is
\* written. The result is the frame; remain/width are not needed by the model.
capturePut(f, x, y, str, style) ==
    IF str = << >> THEN f
    ELSE LET cluster == Head(str)
             w0 == StringWidth(cluster)
         IN  IF w0 <= 0 THEN f
             ELSE LET t == ClippedText(f, x, cluster, w0)
                      width == ClippedWidth(f, x, w0)
                      lead == putCellText(f, x, y, t, style, widthToCellDW(width), FALSE, -1)
                  IN  putContinuations(lead, x, y, style, 1, width)

\* ------------------------------------------------------------------ simulated terminal

\* What the terminal shows in a blank column.
BlankCell ==
    [text |-> " ", style |-> StyleDefault, dw |-> 1, cont |-> FALSE, leadX |-> -1]

\* Unknown content: a terminal before its first repaint or after a size change.
JunkCell ==
    [text |-> "?", style |-> StyleDefault, dw |-> 1, cont |-> FALSE, leadX |-> -1]

\* A terminal is [width, height, cells].
NewTerm(width, height, c) ==
    [width |-> width, height |-> height, cells |-> [i \in 0..(width * height - 1) |-> c]]

\* screen.Clear()
TermClear(t) == [t EXCEPT !.cells = [i \in DOMAIN t.cells |-> BlankCell]]

\* screen.Put(x, y, cluster, style): one cluster; a wide one at the last column
\* is clipped to a blank, as frame.SetContent mirrors it; a wide lead occupies
\* its continuation columns.
TermPut(t, x, y, cluster, style) ==
    IF x < 0 \/ y < 0 \/ x >= t.width \/ y >= t.height THEN t
    ELSE LET w0 == StringWidth(cluster)
             clip == w0 > 1 /\ x = t.width - 1
             w == IF clip THEN 1 ELSE w0
             text == IF clip THEN " " ELSE cluster
         IN  [t EXCEPT !.cells =
                 [i \in DOMAIN t.cells |->
                     IF i = y * t.width + x
                     THEN [text |-> text, style |-> style, dw |-> w, cont |-> FALSE,
                           leadX |-> -1]
                     ELSE IF i > y * t.width + x /\ i < y * t.width + x + w
                             /\ i < (y + 1) * t.width
                     THEN [text |-> "", style |-> style, dw |-> 0, cont |-> TRUE,
                           leadX |-> x]
                     ELSE t.cells[i]]]

\* screen.PutStrStyled(x, y, str, style): str is a sequence of clusters.
RECURSIVE TermPutStr(_, _, _, _, _)
TermPutStr(t, x, y, str, style) ==
    IF str = << >> \/ x >= t.width THEN t
    ELSE LET w == IF StringWidth(Head(str)) > 1 /\ x = t.width - 1
                  THEN 1 ELSE StringWidth(Head(str))
         IN  IF w <= 0 THEN t
             ELSE TermPutStr(TermPut(t, x, y, Head(str), style), x + w, y, Tail(str), style)

\* ------------------------------------------------------------------ blitter

\* "c.gen == f.gen": the cell belongs to the frame's current generation.
cellLive(c, gen) == c.gen = gen

\* spaces[:n]
Spaces(n) == [i \in 1..n |-> " "]

\* The result of a blit in progress: the terminal, the operations issued so
\* far, the changed flag, and whether a loop has stopped advancing.
BlitStart(t) == [term |-> t, ops |-> << >>, changed |-> FALSE, hang |-> FALSE]

\* A blitter that forgets to clear the terminal.
EmitClearSkipped(st) == st

EmitClear(st) ==
    [st EXCEPT !.term = TermClear(st.term), !.ops = Append(st.ops, [op |-> "clear"]),
               !.changed = TRUE]

\* A string write that does not report a change.
EmitPutStrSilent(st, x, y, str, style) ==
    [st EXCEPT !.term = TermPutStr(st.term, x, y, str, style),
               !.ops = Append(st.ops, [op |-> "putstr", x |-> x, y |-> y, str |-> str,
                                       style |-> style])]

EmitPutStr(st, x, y, str, style) ==
    [st EXCEPT !.term = TermPutStr(st.term, x, y, str, style),
               !.ops = Append(st.ops, [op |-> "putstr", x |-> x, y |-> y, str |-> str,
                                       style |-> style]),
               !.changed = TRUE]

EmitPut(st, x, y, text, style) ==
    [st EXCEPT !.term = TermPut(st.term, x, y, text, style),
               !.ops = Append(st.ops, [op |-> "put", x |-> x, y |-> y, str |-> << text >>,
                                       style |-> style]),
               !.changed = TRUE]

\* Row y of frame f at column x.
RowCell(f, y, x) == f.cells[y * f.width + x]

\* A blitter that trusts every continuation flag.
isContinuationCoveredAlways(f, y, x) == TRUE

isContinuationCoveredByLead(f, y, x) ==
    IF x < 0 \/ x >= f.width THEN FALSE
    ELSE LET c == RowCell(f, y, x)
         IN  IF ~cellLive(c, f.gen) \/ ~c.cont THEN FALSE
             ELSE IF c.leadX < 0 \/ c.leadX >= x \/ c.leadX >= f.width THEN FALSE
             ELSE LET lead == RowCell(f, y, c.leadX)
                  IN  IF ~cellLive(lead, f.gen) \/ lead.cont \/ lead.dw <= 1 THEN FALSE
                      ELSE c.leadX + lead.dw > x

\* The rolling hash over [start, end): the cells' signatures in order, the
\* sentinel 0 for an absent cell, then the length.
rowRangeSignature(f, y, start, end) ==
    << [i \in 1..(end - start) |->
            LET c == RowCell(f, y, start + i - 1)
            IN  IF ~cellLive(c, f.gen) THEN << >> ELSE c.sig],
       end - start >>

\* paintBackRowRangeNoCompare, blank run: first column of [x, end) that is live.
RECURSIVE BlankRunEnd(_, _, _, _)
BlankRunEnd(f, y, x, end) ==
    IF x < end /\ ~cellLive(RowCell(f, y, x), f.gen) THEN BlankRunEnd(f, y, x + 1, end)
    ELSE x

\* paintBackRowRangeNoCompare, narrow run: first column of [x, end) that is
\* not a live width-1 cell of the run's style.
RECURSIVE PaintRunEnd(_, _, _, _, _)
PaintRunEnd(f, y, x, end, style) ==
    IF x < end /\ cellLive(RowCell(f, y, x), f.gen) /\ RowCell(f, y, x).style = style
       /\ RowCell(f, y, x).dw = 1
    THEN PaintRunEnd(f, y, x + 1, end, style)
    ELSE x

\* The text of the cells of [from, to), joined.
RunText(f, y, from, to) == [i \in 1..(to - from) |-> RowCell(f, y, from + i - 1).text]

RECURSIVE paintBackRowRangeNoCompare(_, _, _, _, _)
paintBackRowRangeNoCompare(st, f, y, x, end) ==
    IF x >= end \/ st.hang THEN st
    ELSE LET cell == RowCell(f, y, x)
         IN  IF ~cellLive(cell, f.gen)
             THEN LET e == BlankRunEnd(f, y, x, end)
                  IN  paintBackRowRangeNoCompare(
                          EmitPutStr(st, x, y, Spaces(e - x), StyleDefault), f, y, e, end)
             ELSE IF cell.cont
             THEN paintBackRowRangeNoCompare(
                      IF ~isContinuationCoveredByLead(f, y, x)
                      THEN EmitPutStr(st, x, y, Spaces(1), StyleDefault) ELSE st,
                      f, y, x + 1, end)
             ELSE IF cell.dw = 1
             THEN LET e == PaintRunEnd(f, y, x, end, cell.style)
                  IN  IF e = x THEN [st EXCEPT !.hang = TRUE]
                      ELSE paintBackRowRangeNoCompare(
                               EmitPutStr(st, x, y, RunText(f, y, x, e), cell.style),
                               f, y, e, end)
             ELSE paintBackRowRangeNoCompare(
                      EmitPut(st, x, y, cell.text, cell.style), f, y, x + 1, end)

\* Incremental mode, clear run: extends over the columns where back is absent.
RECURSIVE ClearRunEnd(_, _, _, _, _)
ClearRunEnd(fr, bk, y, x, end) ==
    IF x >= end THEN x
    ELSE LET fc == RowCell(fr, y, x)
             fok == cellLive(fc, fr.gen)
             bc == RowCell(bk, y, x)
             bok == cellLive(bc, bk.gen)
         IN  IF bok THEN x
             ELSE IF ~fok THEN ClearRunEnd(fr, bk, y, x + 1, end)
             ELSE IF cellsEqual(fc, fok, bc, bok) THEN x
             ELSE ClearRunEnd(fr, bk, y, x + 1, end)

\* A narrow run that never batches: it ends after its first cell.
NarrowRunEndSingle(fr, bk, y, x, end, style) == x + 1

\* Incremental mode, narrow run: stops at the first cell that is absent, of
\* another style or width, or equal to the front cell.
RECURSIVE NarrowRunEnd(_, _, _, _, _, _)
NarrowRunEnd(fr, bk, y, x, end, style) ==
    IF x >= end THEN x
    ELSE LET fc == RowCell(fr, y, x)
             fok == cellLive(fc, fr.gen)
             bc == RowCell(bk, y, x)
             bok == cellLive(bc, bk.gen)
         IN  IF ~bok \/ bc.style # style \/ bc.dw # 1 THEN x
             ELSE IF fok /\ fc.style = bc.style /\ fc.dw = bc.dw /\ fc.text = bc.text THEN x
             ELSE NarrowRunEnd(fr, bk, y, x + 1, end, style)

\* The walk "for x := start; x < end; { ... }" of one row in incremental mode.
RECURSIVE diffRowWalk(_, _, _, _, _, _)
diffRowWalk(st, fr, bk, y, x, end) ==
    IF x >= end \/ st.hang THEN st
    ELSE LET frontCell == RowCell(fr, y, x)
             frontOK == cellLive(frontCell, fr.gen)
             backCell == RowCell(bk, y, x)
             backOK == cellLive(backCell, bk.gen)
         IN  IF ~frontOK /\ ~backOK THEN diffRowWalk(st, fr, bk, y, x + 1, end)
             ELSE IF backOK /\ backCell.cont
             THEN diffRowWalk(
                      IF ~isContinuationCoveredByLead(bk, y, x)
                      THEN EmitPutStr(st, x, y, Spaces(1), StyleDefault) ELSE st,
                      fr, bk, y, x + 1, end)
             ELSE IF cellsEqual(frontCell, frontOK, backCell, backOK)
             THEN diffRowWalk(st, fr, bk, y, x + 1, end)
             ELSE IF ~backOK
             THEN LET e == ClearRunEnd(fr, bk, y, x, end)
                  IN  IF e = x THEN [st EXCEPT !.hang = TRUE]
                      ELSE diffRowWalk(EmitPutStr(st, x, y, Spaces(e - x), StyleDefault),
                                       fr, bk, y, e, end)
             ELSE IF backCell.dw = 1
             THEN LET e == NarrowRunEnd(fr, bk, y, x, end, backCell.style)
                  IN  IF e = x THEN [st EXCEPT !.hang = TRUE]
                      ELSE diffRowWalk(
                               EmitPutStr(st, x, y, RunText(bk, y, x, e), backCell.style),
                               fr, bk, y, e, end)
             ELSE diffRowWalk(EmitPut(st, x, y, backCell.text, backCell.style),
                              fr, bk, y, x + 1, end)

Min(a, b) == IF a < b THEN a ELSE b
Max(a, b) == IF a > b THEN a ELSE b

\* Every touched row is walked from its first to its last column.
candidateRangeWholeRow(fr, bk, y) ==
    IF rowSpan(bk, y).ok \/ rowSpan(fr, y).ok
    THEN [start |-> 0, end |-> bk.width, ok |-> TRUE]
    ELSE [start |-> 0, end |-> 0, ok |-> FALSE]

\* The candidate dirty window of row y: from the smaller start to the larger end
\* of both frames' spans.
candidateRange(fr, bk, y) ==
    LET b == rowSpan(bk, y)
        f == rowSpan(fr, y)
    IN  IF b.ok /\ f.ok
        THEN [start |-> Min(b.start, f.start), end |-> Max(b.end, f.end), ok |-> TRUE]
        ELSE IF b.ok THEN [start |-> b.start, end |-> b.end, ok |-> TRUE]
        ELSE IF f.ok THEN [start |-> f.start, end |-> f.end, ok |-> TRUE]
        ELSE [start |-> 0, end |-> 0, ok |-> FALSE]

\* One row of the incremental mode.
diffRow(st, fr, bk, y) ==
    LET r == candidateRange(fr, bk, y)
    IN  IF ~r.ok \/ r.start >= r.end THEN st
        ELSE IF rowRangeSignature(fr, y, r.start, r.end)
                    = rowRangeSignature(bk, y, r.start, r.end)
        THEN st
        ELSE diffRowWalk(st, fr, bk, y, r.start, r.end)

\* A full-clear mode that repaints whole rows.
clearRowWholeRow(st, bk, y) == paintBackRowRangeNoCompare(st, bk, y, 0, bk.width)

\* One row of the full-clear mode.
clearRow(st, bk, y) ==
    LET r == rowSpan(bk, y)
    IN  IF ~r.ok \/ r.start >= r.end THEN st
        ELSE paintBackRowRangeNoCompare(st, bk, y, r.start, r.end)

\* "for y := range height" over the rows y, y+1, ... in the given mode.
RECURSIVE blitRows(_, _, _, _, _)
blitRows(st, fr, bk, mode, y) ==
    IF y >= bk.height THEN st
    ELSE blitRows(
             CASE mode = "clear" -> clearRow(st, bk, y)
               [] mode = "forced" -> paintBackRowRangeNoCompare(st, bk, y, 0, bk.width)
               [] OTHER -> diffRow(st, fr, bk, y),
             fr, bk, mode, y + 1)

\* A blitter without the incremental mode: it repaints whenever it runs.
blitModeNoIncremental(bk, forceRedraw) ==
    IF bk.clearAll THEN "clear" ELSE "forced"

\* A blitter that tests forceRedraw before the full-clear flag.
blitModeForcedFirst(bk, forceRedraw) ==
    IF forceRedraw THEN "forced" ELSE IF bk.clearAll THEN "clear" ELSE "incremental"

\* Which of the three modes runs: full clear before forced before incremental.
blitMode(bk, forceRedraw) ==
    IF bk.clearAll THEN "clear" ELSE IF forceRedraw THEN "forced" ELSE "incremental"

blitDiff(t, fr, bk, forceRedraw) ==
    IF fr = NULL \/ bk = NULL THEN BlitStart(t)
    ELSE LET mode == blitMode(bk, forceRedraw)
         IN  blitRows(IF mode = "incremental" THEN BlitStart(t) ELSE EmitClear(BlitStart(t)),
                      fr, bk, mode, 0)

\* ------------------------------------------------------------------ clipping surface

\* clippedScreen s = [x, y, width, height] over the capturing surface of frame f.
inBounds(s, x, y) == x >= s.x /\ x < s.x + s.width /\ y >= s.y /\ y < s.y + s.height

clippedSetContent(f, s, x, y, text, style) ==
    IF ~inBounds(s, x, y) THEN f ELSE SetContent(f, x, y, text, style)

clippedPut(f, s, x, y, str, style) ==
    IF ~inBounds(s, x, y) THEN f ELSE capturePut(f, x, y, str, style)

\* The loop "for gr.Next()" of PutStrStyled over the clusters of str.
RECURSIVE clippedPutClusters(_, _, _, _, _, _)
clippedPutClusters(f, s, x, y, str, style) ==
    IF str = << >> THEN f
    ELSE LET cluster == Head(str)
             width == Max(StringWidth(cluster), 1)
         IN  IF x >= s.x + s.width THEN f
             ELSE clippedPutClusters(
                      IF x >= s.x /\ x + width <= s.x + s.width
                      THEN capturePut(f, x, y, << cluster >>, style) ELSE f,
                      s, x + width, y, Tail(str), style)

clippedPutStrStyled(f, s, x, y, str, style) ==
    IF y < s.y \/ y >= s.y + s.height THEN f
    ELSE clippedPutClusters(f, s, x, y, str, style)

clippedPutStr(f, s, x, y, str) == clippedPutStrStyled(f, s, x, y, str, StyleDefault)

\* ------------------------------------------------------------------ state

VARIABLES
    front,        \* a.frontFrame (draw's local front while a pass is running)
    back,         \* a.backFrame (draw's local back); the frame of SpecFrame
    epoch,        \* ghost: number of beginFrame/Clear calls on back so far
    wroteEpoch,   \* ghost: per cell, the epoch of the last write that stored it (0: never)
    expect,       \* ghost: per cell, what last-write-wins prescribes for this generation
    last,         \* ghost: the last operation and what it found and did
    fwrites,      \* ghost: number of writes (and external events) so far
    budget,       \* ghost: frame size, generations and writes of this run
    clip,         \* the viewport [x, y, width, height] of a clippedScreen
    term,         \* the simulated terminal behind a.screen
    size,         \* screen.Size()
    root,         \* a.root != nil
    hasFrames,    \* a.frontFrame != nil && a.backFrame != nil
    forceRedraw,  \* a.forceRedraw
    dForce,       \* draw's local copy of a.forceRedraw
    spaces,       \* len(a.spaces), the cached string of blanks
    pc,           \* "idle", or "drawing" while root.Draw runs
    script,       \* ghost: the widget output of the running pass
    prevScript,   \* ghost: the widget output of the previous pass, if undisturbed
    passes,       \* ghost: number of completed draw passes
    updates,      \* a.updates: the queued updates not yet taken by the event loop
    goroutine,    \* per goroutine (the event loop included): where it stands
    handledEvents,\* number of events the event loop has taken from a.events
    started,      \* ghost: per queued update, how often its function was started
    finished,     \* ghost: per queued update, how often its function has finished
    returned,     \* ghost: the queued updates whose QueueUpdate call has returned
    pages,        \* Pages.pages
    layers,       \* Layers.layers with the focus of the items and of the box
    paste,        \* the paste state of the event loop of Run: pasting, pasteBuffer
    mouse,        \* the mouse state of the application behind fireMouseActions
    form          \* a Form with its items and buttons and their dirty flags

frameVars == << epoch, wroteEpoch, expect, budget, clip >>
appVars == << term, size, root, hasFrames, forceRedraw, dForce, spaces, pc, script, prevScript,
              passes >>
queueVars == << updates, goroutine, handledEvents, started, finished, returned >>
widgetVars == << pages, layers >>
handlerVars == << paste, mouse, form >>
otherVars == << queueVars, widgetVars, handlerVars >>
vars == << front, back, last, fwrites, frameVars, appVars, otherVars >>

\* No event loop is modelled.
NoQueue ==
    /\ updates = << >> /\ goroutine = NULL /\ handledEvents = 0
    /\ started = NULL /\ finished = NULL /\ returned = {}

\* No container widget is modelled.
\* No event handler and no form is modelled.
NoHandlers == paste = NULL /\ mouse = NULL /\ form = NULL

NoWidgets == pages = NULL /\ layers = NULL /\ NoHandlers

\* ------------------------------------------------------------------ frame-level specification

FrameProfiles ==
    {[size |-> GenFrameSize, epochs |-> MaxEpoch, writes |-> MaxGenWrites],
     [size |-> DenseFrameSize, epochs |-> MaxFrameEpoch, writes |-> MaxFrameWrites]}

\* Target coordinates of a write: every cell, and one coordinate beyond each edge.
FrameCoords(f) ==
    {<< x, y >> : x \in 0..(f.width - 1), y \in 0..(f.height - 1)}
        \cup {<< -1, 0 >>, << f.width, 0 >>, << 0, -1 >>, << 0, f.height >>}

\* The glyph/style pairs the widgets draw with.
FramePens ==
    {<< "a", StyleDefault >>, << "b", StyleBold >>, << "W", StyleDefault >>, << "T", StyleBold >>,
     << "z", StyleDefault >>}

Absent == [ok |-> FALSE]

\* What a reader sees at a cell: absent, or the stored fields.
View(f, x, y) ==
    LET r == cellAt(f, x, y)
    IN  IF ~r.ok THEN Absent
        ELSE [ok |-> TRUE, text |-> r.c.text, style |-> r.c.style, dw |-> r.c.dw,
              cont |-> r.c.cont, leadX |-> r.c.leadX]

InFrame(f, x, y) == x >= 0 /\ y >= 0 /\ x < f.width /\ y < f.height

\* Columns of [x, x+w) that lie inside the row.
SpanCols(f, x, w) == {c \in 0..(f.width - 1) : c >= x /\ c < x + w}

\* Last-write-wins oracle: the stored glyph (text t, width w) lands on its own
\* span; a column outside the span is blanked only when it is the continuation
\* of a wide lead that this write overwrites.
ExpectAfter(e, f, x, y, t, style, w) ==
    IF y < 0 \/ y >= f.height THEN e
    ELSE [i \in DOMAIN e |->
            LET cy == i \div f.width
                cx == i % f.width
            IN  IF cy # y THEN e[i]
                ELSE IF cx \in SpanCols(f, x, w)
                THEN IF cx = x
                     THEN [ok |-> TRUE, text |-> t, style |-> style, dw |-> w,
                           cont |-> FALSE, leadX |-> -1]
                     ELSE [ok |-> TRUE, text |-> "", style |-> style, dw |-> 0,
                           cont |-> TRUE, leadX |-> x]
                ELSE IF e[i].ok /\ e[i].cont /\ e[i].leadX \in SpanCols(f, x, w)
                        /\ e[y * f.width + e[i].leadX].ok
                        /\ ~e[y * f.width + e[i].leadX].cont
                        /\ e[y * f.width + e[i].leadX].dw > 1
                THEN Absent
                ELSE e[i]]

WroteAfter(wr, f, x, y, w) ==
    [i \in DOMAIN wr |->
        IF y >= 0 /\ y < f.height /\ i \div f.width = y /\ (i % f.width) \in SpanCols(f, x, w)
        THEN epoch ELSE wr[i]]

\* Display width of the live wide lead at (x, y), 0 if there is none.
LiveWideDw(f, x, y) ==
    LET r == cellAt(f, x, y)
    IN  IF r.ok /\ ~r.c.cont /\ r.c.dw > 1 THEN r.c.dw ELSE 0

\* Ghost: every write of the current generation so far had its target
\* coordinate inside the frame.
InBoundsSoFar == IF last.op = "write" THEN last.inb ELSE TRUE

InitFrame ==
    /\ budget \in FrameProfiles
    /\ clip = NULL
    /\ back = beginFrame(newFrame(budget.size[1], budget.size[2]))
    /\ front = NULL
    /\ epoch = 1
    /\ wroteEpoch = [i \in DOMAIN back.cells |-> 0]
    /\ expect = [i \in DOMAIN back.cells |-> Absent]
    /\ last = [op |-> "none"]
    /\ fwrites = 0
    /\ term = NULL /\ size = budget.size /\ root = FALSE /\ hasFrames = FALSE
    /\ forceRedraw = FALSE /\ dForce = FALSE /\ spaces = 0 /\ pc = "frame"
    /\ script = NULL /\ prevScript = NoScript /\ passes = 0
    /\ NoQueue /\ NoWidgets

FBeginFrame ==
    /\ epoch < budget.epochs
    /\ back' = beginFrame(back)
    /\ epoch' = epoch + 1
    /\ expect' = [i \in DOMAIN expect |-> Absent]
    /\ last' = [op |-> "beginFrame", wrapped |-> (back.gen = GenMod - 1)]
    /\ UNCHANGED << front, wroteEpoch, fwrites, budget, clip, appVars, otherVars >>

FClear ==
    /\ epoch < budget.epochs
    /\ back' = Clear(back)
    /\ epoch' = epoch + 1
    /\ expect' = [i \in DOMAIN expect |-> Absent]
    /\ last' = [op |-> "beginFrame", wrapped |-> (back.gen = GenMod - 1)]
    /\ UNCHANGED << front, wroteEpoch, fwrites, budget, clip, appVars, otherVars >>

FSetContent ==
    /\ fwrites < budget.writes
    /\ \E xy \in FrameCoords(back), pen \in FramePens :
        LET x == xy[1]
            y == xy[2]
            w0 == StringWidth(pen[1])
            w1 == IF w0 <= 0 THEN 1 ELSE w0
            t == ClippedText(back, x, pen[1], w1)
            w == ClippedWidth(back, x, w1)
        IN  /\ back' = SetContent(back, x, y, pen[1], pen[2])
            /\ expect' = ExpectAfter(expect, back, x, y, t, pen[2], w)
            /\ wroteEpoch' = WroteAfter(wroteEpoch, back, x, y, w)
            /\ last' = [op |-> "write", x |-> x, y |-> y, w |-> w1, style |-> pen[2],
                        prevDw |-> LiveWideDw(back, x, y), text |-> pen[1],
                        api |-> "SetContent", inb |-> InBoundsSoFar /\ InFrame(back, x, y)]
    /\ fwrites' = fwrites + 1
    /\ UNCHANGED << front, epoch, budget, clip, appVars, otherVars >>

FPut ==
    /\ fwrites < budget.writes
    /\ \E xy \in FrameCoords(back), pen \in FramePens :
        LET x == xy[1]
            y == xy[2]
            w0 == StringWidth(pen[1])
            t == ClippedText(back, x, pen[1], w0)
            w == ClippedWidth(back, x, w0)
        IN  /\ back' = capturePut(back, x, y, << pen[1] >>, pen[2])
            /\ expect' = ExpectAfter(expect, back, x, y, t, pen[2], w)
            /\ wroteEpoch' = WroteAfter(wroteEpoch, back, x, y, w)
            /\ last' = [op |-> "write", x |-> x, y |-> y, w |-> w0, style |-> pen[2],
                        prevDw |-> LiveWideDw(back, x, y), text |-> pen[1], api |-> "Put",
                        inb |-> InBoundsSoFar /\ InFrame(back, x, y)]
    /\ fwrites' = fwrites + 1
    /\ UNCHANGED << front, epoch, budget, clip, appVars, otherVars >>

NextFrame == FBeginFrame \/ FClear \/ FSetContent \/ FPut

SpecFrame == InitFrame /\ [][NextFrame]_vars


\* ------------------------------------------------------------------ clipping-surface specification

\* The viewports of the clipped surfaces: the left part of the first row, the
\* right part of both rows, and one that reaches beyond the frame.
ClipViewports ==
    {[x |-> 0, y |-> 0, width |-> 2, height |-> 1],
     [x |-> 1, y |-> 0, width |-> 2, height |-> 2],
     [x |-> 1, y |-> 1, width |-> 3, height |-> 2]}

ClipPens == {<< "a", StyleDefault >>, << "W", StyleBold >>}

\* Strings of grapheme clusters handed to PutStr and PutStrStyled.
ClipStrings == {<< "a", "W" >>, << "W", "a" >>}

InitClip ==
    /\ clip \in ClipViewports
    /\ back = beginFrame(newFrame(ClipFrameSize[1], ClipFrameSize[2]))
    /\ front = NULL
    /\ epoch = 1 /\ wroteEpoch = << >> /\ expect = << >> /\ budget = NULL
    /\ last = [op |-> "none"]
    /\ fwrites = 0
    /\ term = NULL /\ size = ClipFrameSize /\ root = FALSE /\ hasFrames = FALSE
    /\ forceRedraw = FALSE /\ dForce = FALSE /\ spaces = 0 /\ pc = "clip"
    /\ script = NULL /\ prevScript = NoScript /\ passes = 0
    /\ NoQueue /\ NoWidgets

\* What a write through the clipped surface leaves alone.
ClipUnchanged ==
    UNCHANGED << front, epoch, wroteEpoch, expect, budget, clip, appVars, otherVars >>

CSetContent ==
    /\ fwrites < MaxClipWrites
    /\ \E xy \in FrameCoords(back), pen \in ClipPens :
          back' = clippedSetContent(back, clip, xy[1], xy[2], pen[1], pen[2])
    /\ last' = [op |-> "clipped", before |-> back]
    /\ fwrites' = fwrites + 1
    /\ ClipUnchanged

CPut ==
    /\ fwrites < MaxClipWrites
    /\ \E xy \in FrameCoords(back), pen \in ClipPens :
          back' = clippedPut(back, clip, xy[1], xy[2], << pen[1] >>, pen[2])
    /\ last' = [op |-> "clipped", before |-> back]
    /\ fwrites' = fwrites + 1
    /\ ClipUnchanged

CPutStr ==
    /\ fwrites < MaxClipWrites
    /\ \E xy \in FrameCoords(back), str \in ClipStrings :
          back' = clippedPutStr(back, clip, xy[1], xy[2], str)
    /\ last' = [op |-> "clipped", before |-> back]
    /\ fwrites' = fwrites + 1
    /\ ClipUnchanged

CPutStrStyled ==
    /\ fwrites < MaxClipWrites
    /\ \E xy \in FrameCoords(back), str \in ClipStrings :
          back' = clippedPutStrStyled(back, clip, xy[1], xy[2], str, StyleBold)
    /\ last' = [op |-> "clipped", before |-> back]
    /\ fwrites' = fwrites + 1
    /\ ClipUnchanged

NextClip == CSetContent \/ CPut \/ CPutStr \/ CPutStrStyled

SpecClip == InitClip /\ [][NextClip]_vars

\* ------------------------------------------------------------------ frame-resize specification

\* Widths and heights handed to resize, a negative one included.
ResizeDims == {-1, 0, 1, 2}

ResizePens == {<< "a", StyleDefault >>, << "W", StyleBold >>}

InitResize ==
    /\ back = beginFrame(newFrame(ResizeFrameSize[1], ResizeFrameSize[2]))
    /\ front = NULL
    /\ epoch = 1 /\ wroteEpoch = << >> /\ expect = << >> /\ budget = NULL /\ clip = NULL
    /\ last = [op |-> "none"]
    /\ fwrites = 0
    /\ term = NULL /\ size = ResizeFrameSize /\ root = FALSE /\ hasFrames = FALSE
    /\ forceRedraw = FALSE /\ dForce = FALSE /\ spaces = 0 /\ pc = "resize"
    /\ script = NULL /\ prevScript = NoScript /\ passes = 0
    /\ NoQueue /\ NoWidgets

ResizeUnchanged ==
    UNCHANGED << front, epoch, wroteEpoch, expect, budget, clip, appVars, otherVars >>

RBeginFrame ==
    /\ fwrites < MaxResizeOps
    /\ back' = beginFrame(back)
    /\ last' = [op |-> "beginFrame", before |-> back,
                fresh |-> (last.op = "resize" /\ back # last.before)]
    /\ fwrites' = fwrites + 1
    /\ ResizeUnchanged

RClear ==
    /\ fwrites < MaxResizeOps
    /\ back' = Clear(back)
    /\ last' = [op |-> "clear"]
    /\ fwrites' = fwrites + 1
    /\ ResizeUnchanged

RSetContent ==
    /\ fwrites < MaxResizeOps
    /\ \E xy \in FrameCoords(back), pen \in ResizePens :
          back' = SetContent(back, xy[1], xy[2], pen[1], pen[2])
    /\ last' = [op |-> "write"]
    /\ fwrites' = fwrites + 1
    /\ ResizeUnchanged

RResize ==
    /\ fwrites < MaxResizeOps
    /\ \E width \in ResizeDims, height \in ResizeDims :
          /\ back' = resize(back, width, height)
          /\ last' = [op |-> "resize", before |-> back, width |-> width, height |-> height]
    /\ fwrites' = fwrites + 1
    /\ ResizeUnchanged

NextResize == RBeginFrame \/ RClear \/ RSetContent \/ RResize

SpecResize == InitResize /\ [][NextResize]_vars

\* ------------------------------------------------------------------ application

\* The glyph/style pairs the widgets of the application draw with.
AppPens ==
    {<< "a", StyleDefault >>, << "b", StyleBold >>, << "W", StyleDefault >>, << "T", StyleBold >>}

\* A cache of blanks that is never filled.
ensureSpacesNever(n, width) == n

\* ensureSpaces on the length n of a.spaces.
ensureSpaces(n, width) ==
    IF width <= 0 THEN 0 ELSE IF n >= width THEN n ELSE width

\* ensureDiffFrames that asks for a forced redraw on every pass.
ensureDiffFramesAlwaysForce(fr, bk, force, width, height) ==
    IF fr = NULL \/ bk = NULL
    THEN [front |-> beginFrame(newFrame(width, height)),
          back |-> beginFrame(newFrame(width, height)), force |-> TRUE, created |-> TRUE, sized |-> TRUE]
    ELSE IF fr.width = width /\ fr.height = height /\ bk.width = width /\ bk.height = height
    THEN [front |-> fr, back |-> bk, force |-> TRUE, created |-> FALSE, sized |-> FALSE]
    ELSE [front |-> beginFrame(resize(fr, width, height)),
          back |-> beginFrame(resize(bk, width, height)), force |-> TRUE, created |-> FALSE,
          sized |-> TRUE]

\* ensureDiffFrames on the application's frame pair: the new pair, the new
\* forceRedraw, whether the pair was created, and whether it was created or
\* resized (the two paths that call ensureSpaces).
ensureDiffFrames(fr, bk, force, width, height) ==
    IF fr = NULL \/ bk = NULL
    THEN [front |-> beginFrame(newFrame(width, height)),
          back |-> beginFrame(newFrame(width, height)), force |-> TRUE, created |-> TRUE, sized |-> TRUE]
    ELSE IF fr.width = width /\ fr.height = height /\ bk.width = width /\ bk.height = height
    THEN [front |-> fr, back |-> bk, force |-> force, created |-> FALSE, sized |-> FALSE]
    ELSE [front |-> beginFrame(resize(fr, width, height)),
          back |-> beginFrame(resize(bk, width, height)), force |-> TRUE, created |-> FALSE,
          sized |-> TRUE]

Init ==
    /\ front = NULL /\ back = NULL /\ hasFrames = FALSE
    /\ forceRedraw = FALSE /\ dForce = FALSE /\ spaces = 0
    /\ root \in BOOLEAN
    /\ size \in AppSizes
    /\ term = NewTerm(size[1], size[2], JunkCell)
    /\ pc = "idle"
    /\ script = NULL /\ prevScript = NoScript
    /\ passes = 0 /\ fwrites = 0
    /\ last = [op |-> "none"]
    /\ epoch = 0 /\ wroteEpoch = << >> /\ expect = << >> /\ budget = NULL /\ clip = NULL
    /\ NoQueue /\ NoWidgets

\* draw() with a nil root: the frames are ensured, nothing is drawn.
DrawNoRoot ==
    /\ pc = "idle" /\ ~root
    /\ LET e == ensureDiffFrames(front, back, forceRedraw, size[1], size[2])
       IN  /\ front' = e.front /\ back' = e.back /\ forceRedraw' = e.force
           /\ spaces' = IF e.sized THEN ensureSpaces(spaces, size[1]) ELSE spaces
    /\ hasFrames' = TRUE
    /\ last' = [op |-> "drawNoRoot"]
    /\ prevScript' = NoScript
    /\ UNCHANGED << fwrites, frameVars, otherVars, term, size, root, dForce, pc, script, passes >>

\* draw() up to the call of root.Draw: ensureDiffFrames, back.beginFrame().
DrawBegin ==
    /\ pc = "idle" /\ root /\ passes < MaxPasses
    /\ LET e == ensureDiffFrames(front, back, forceRedraw, size[1], size[2])
       IN  /\ front' = e.front
           /\ back' = beginFrame(e.back)
           /\ forceRedraw' = e.force
           /\ dForce' = e.force
           /\ spaces' = IF e.sized THEN ensureSpaces(spaces, size[1]) ELSE spaces
           /\ script' = [fresh |-> e.created, disturbed |-> FALSE, writes |-> << >>,
                         requested |-> ~prevScript.known]
           /\ last' = [op |-> "drawBegin", stale |-> e.back.clearAll]
    /\ hasFrames' = TRUE
    /\ pc' = "drawing"
    /\ UNCHANGED << fwrites, frameVars, otherVars, term, size, root, prevScript, passes >>

AppCoords == {<< x, y >> : x \in 0..(back.width - 1), y \in 0..(back.height - 1)}

\* root.Draw calls SetContent on the capturing surface.
WidgetSetContent ==
    /\ pc = "drawing" /\ fwrites < MaxInputs
    /\ \E xy \in AppCoords, pen \in AppPens :
        /\ back' = SetContent(back, xy[1], xy[2], pen[1], pen[2])
        /\ script' = [script EXCEPT !.writes =
                         Append(@, [x |-> xy[1], y |-> xy[2], text |-> pen[1],
                                    style |-> pen[2]])]
    /\ fwrites' = fwrites + 1
    /\ last' = [op |-> "widget"]
    /\ UNCHANGED << front, frameVars, otherVars, term, size, root, hasFrames, forceRedraw, dForce, spaces, pc,
                    prevScript, passes >>

\* root.Draw calls Put on the capturing surface.
WidgetPut ==
    /\ pc = "drawing" /\ fwrites < MaxInputs
    /\ \E xy \in AppCoords, pen \in AppPens :
        /\ back' = capturePut(back, xy[1], xy[2], << pen[1] >>, pen[2])
        /\ script' = [script EXCEPT !.writes =
                         Append(@, [x |-> xy[1], y |-> xy[2], text |-> pen[1],
                                    style |-> pen[2]])]
    /\ fwrites' = fwrites + 1
    /\ last' = [op |-> "widget"]
    /\ UNCHANGED << front, frameVars, otherVars, term, size, root, hasFrames, forceRedraw, dForce, spaces, pc,
                    prevScript, passes >>

\* root.Draw calls Clear on the capturing surface.
WidgetClear ==
    /\ pc = "drawing" /\ fwrites < MaxInputs
    /\ back' = Clear(back)
    /\ script' = [script EXCEPT !.writes = Append(@, [x |-> -1, y |-> -1, text |-> "Clear",
                                                      style |-> StyleDefault])]
    /\ fwrites' = fwrites + 1
    /\ last' = [op |-> "widget"]
    /\ UNCHANGED << front, frameVars, otherVars, term, size, root, hasFrames, forceRedraw, dForce, spaces, pc,
                    prevScript, passes >>

\* draw() after root.Draw: blitDiff, Show, swap of the frames, reset of the flag.
DrawEnd ==
    /\ pc = "drawing"
    /\ LET res == blitDiff(term, front, back, dForce)
       IN  /\ term' = res.term
           /\ last' = [op |-> "draw", front |-> front, back |-> back, before |-> term,
                       force |-> dForce, mode |-> blitMode(back, dForce), ops |-> res.ops,
                       changed |-> res.changed, shown |-> res.changed, hang |-> res.hang,
                       script |-> script, prev |-> prevScript, spaces |-> spaces]
    /\ IF hasFrames THEN front' = back /\ back' = front
       ELSE front' = NULL /\ back' = NULL
    /\ forceRedraw' = FALSE
    /\ dForce' = FALSE
    /\ pc' = "idle"
    /\ spaces' = spaces
    /\ prevScript' = IF script.disturbed THEN NoScript
                     ELSE [known |-> TRUE, writes |-> script.writes]
    /\ script' = NULL
    /\ passes' = passes + 1
    /\ UNCHANGED << fwrites, frameVars, otherVars, size, root, hasFrames >>

\* SetRoot(root) with a screen present, from the event loop or from root.Draw.
SetRoot ==
    /\ fwrites < MaxInputs
    /\ root' = TRUE
    /\ hasFrames' = FALSE
    /\ forceRedraw' = TRUE
    /\ IF pc = "idle"
       THEN front' = NULL /\ back' = NULL /\ script' = script
       ELSE /\ UNCHANGED << front, back >>
            /\ script' = [script EXCEPT !.disturbed = TRUE]
    /\ prevScript' = NoScript
    /\ fwrites' = fwrites + 1
    /\ last' = [op |-> "setRoot"]
    /\ UNCHANGED << frameVars, otherVars, term, size, dForce, spaces, pc, passes >>

\* The queued update of Sync(), run by the event loop.
Sync ==
    /\ pc = "idle" /\ fwrites < MaxInputs
    /\ forceRedraw' = TRUE
    /\ prevScript' = NoScript
    /\ fwrites' = fwrites + 1
    /\ last' = [op |-> "sync"]
    /\ UNCHANGED << front, back, frameVars, otherVars, term, size, root, hasFrames, dForce, spaces, pc,
                    script, passes >>

\* The terminal changes its size; what it shows afterwards is unknown.
TermResize ==
    /\ pc = "idle" /\ fwrites < MaxInputs
    /\ \E sz \in AppSizes \ {size} :
        /\ size' = sz
        /\ term' = NewTerm(sz[1], sz[2], JunkCell)
    /\ prevScript' = NoScript
    /\ fwrites' = fwrites + 1
    /\ last' = [op |-> "resize"]
    /\ UNCHANGED << front, back, frameVars, otherVars, root, hasFrames, forceRedraw, dForce, spaces, pc,
                    script, passes >>

Next ==
    \/ DrawNoRoot \/ DrawBegin \/ WidgetSetContent \/ WidgetPut \/ WidgetClear \/ DrawEnd
    \/ SetRoot \/ Sync \/ TermResize

Spec == Init /\ [][Next]_vars

\* ------------------------------------------------------------------ event loop

\* The goroutines of the program: the one that runs Application.Run, and the
\* background goroutines that call QueueUpdate, QueueUpdateDraw, Draw and Sync.
EventLoop == "loop"
Goroutines == {"g1", "g2"}
Threads == Goroutines \cup {EventLoop}

UpdateIds == Threads \X (1..MaxCalls)

\* No other part of the program is modelled.
NoApplication ==
    /\ front = NULL /\ back = NULL
    /\ epoch = 0 /\ wroteEpoch = << >> /\ expect = << >> /\ budget = NULL /\ clip = NULL
    /\ last = [op |-> "none"]
    /\ fwrites = 0
    /\ term = NULL /\ size = << 0, 0 >> /\ root = FALSE /\ hasFrames = FALSE
    /\ forceRedraw = FALSE /\ dForce = FALSE /\ spaces = 0
    /\ script = NULL /\ prevScript = NoScript /\ passes = 0

\* A goroutine that is not inside QueueUpdate and runs nothing of the loop.
IdleGoroutine == [pc |-> "idle", u |-> NULL, calls |-> 0, cur |-> NULL, act |-> "none"]

\* QueueUpdate(f) called on goroutine t, up to its send on a.updates: kind says
\* what f does, done whether a completion channel is attached (Sync has none).
QueueUpdate(g, t, kind, done) ==
    [g EXCEPT !.pc = "send",
              !.u = [id |-> << t, g.calls + 1 >>, kind |-> kind, done |-> done],
              !.calls = @ + 1]

\* The goroutine goes on after QueueUpdate or Sync has returned: the event loop
\* goes on with the handler or function that made the call.
Resume(g) ==
    IF g.act = "none" THEN [g EXCEPT !.pc = "idle", !.u = NULL]
    ELSE [g EXCEPT !.pc = g.act, !.u = NULL,
                   !.cur = IF @ = NULL THEN NULL ELSE [@ EXCEPT !.kind = "plain"]]

\* A completion channel that always has a sender.
SenderReadyAlways(u) == TRUE

\* "update.done <- struct{}{}" of the event loop is waiting for its receiver.
SenderReady(u) ==
    /\ goroutine[EventLoop].pc = "signal"
    /\ goroutine[EventLoop].cur.id = u.id

\* An event loop that signals completion before it runs the function.
TakeUpdateSignalFirst(g, u) == [g EXCEPT !.pc = "signal", !.cur = u, !.act = "f"]

\* "case update := <-a.updates": the loop goes on to update.f().
TakeUpdate(g, u) == [g EXCEPT !.pc = "f", !.cur = u, !.act = "f"]

\* The loop after update.f() has returned: "if update.done != nil".
AfterF(g) ==
    IF g.cur.done THEN [g EXCEPT !.pc = "signal"]
    ELSE [g EXCEPT !.pc = "select", !.cur = NULL, !.act = "none"]

InitQueue ==
    /\ NoApplication /\ NoWidgets
    /\ pc = "queue"
    /\ updates = << >>
    /\ goroutine = [t \in Threads |->
                       IF t = EventLoop THEN [IdleGoroutine EXCEPT !.pc = "select"]
                       ELSE IdleGoroutine]
    /\ handledEvents = 0
    /\ started = [id \in UpdateIds |-> 0]
    /\ finished = [id \in UpdateIds |-> 0]
    /\ returned = {}

QueueUnchanged ==
    UNCHANGED << front, back, last, fwrites, frameVars, appVars, widgetVars, handlerVars >>

\* A background goroutine calls QueueUpdate(f), QueueUpdateDraw(f) or Draw();
\* f may itself call Application.Draw().
Call(t) ==
    /\ goroutine[t].pc = "idle" /\ goroutine[t].calls < MaxCalls
    /\ \E kind \in {"plain", "draw", "nested"} :
          goroutine' = [goroutine EXCEPT ![t] = QueueUpdate(@, t, kind, TRUE)]
    /\ UNCHANGED << updates, handledEvents, started, finished, returned >>
    /\ QueueUnchanged

\* A background goroutine calls Sync(): a queued update without completion channel.
CallSync(t) ==
    /\ goroutine[t].pc = "idle" /\ goroutine[t].calls < MaxCalls
    /\ goroutine' = [goroutine EXCEPT ![t] = QueueUpdate(@, t, "sync", FALSE)]
    /\ UNCHANGED << updates, handledEvents, started, finished, returned >>
    /\ QueueUnchanged

\* "a.updates <- queuedUpdate{...}": blocks while the channel is full.
Send(t) ==
    /\ goroutine[t].pc = "send"
    /\ Len(updates) < queueSize
    /\ updates' = Append(updates, goroutine[t].u)
    /\ goroutine' = [goroutine EXCEPT ![t] =
                         IF @.u.done THEN [@ EXCEPT !.pc = "wait"] ELSE Resume(@)]
    /\ UNCHANGED << handledEvents, started, finished, returned >>
    /\ QueueUnchanged

\* "<-ch" of QueueUpdate meets "update.done <- struct{}{}" of the event loop.
Receive(t) ==
    /\ goroutine[t].pc = "wait"
    /\ SenderReady(goroutine[t].u)
    /\ LET woken == [goroutine EXCEPT ![t] = Resume(@)]
       IN  goroutine' = [woken EXCEPT ![EventLoop] =
                            IF @.pc = "signal"
                            THEN [@ EXCEPT !.pc = "select", !.cur = NULL, !.act = "none"]
                            ELSE @]
    /\ returned' = returned \cup {goroutine[t].u.id}
    /\ UNCHANGED << updates, handledEvents, started, finished >>
    /\ QueueUnchanged

\* "case event := <-a.events": the loop runs the handler of the event.
LoopTakeEvent ==
    /\ goroutine[EventLoop].pc = "select"
    /\ handledEvents < MaxEvents
    /\ goroutine' = [goroutine EXCEPT ![EventLoop] =
                         [@ EXCEPT !.pc = "handler", !.act = "handler"]]
    /\ handledEvents' = handledEvents + 1
    /\ UNCHANGED << updates, started, finished, returned >>
    /\ QueueUnchanged

\* The handler returns; the loop redraws.
HandlerReturn ==
    /\ goroutine[EventLoop].pc = "handler"
    /\ goroutine' = [goroutine EXCEPT ![EventLoop] = [@ EXCEPT !.pc = "draw", !.act = "draw"]]
    /\ UNCHANGED << updates, handledEvents, started, finished, returned >>
    /\ QueueUnchanged

\* The handler calls Application.Draw().
HandlerCallsDraw ==
    /\ goroutine[EventLoop].pc = "handler" /\ goroutine[EventLoop].calls < MaxCalls
    /\ goroutine' = [goroutine EXCEPT ![EventLoop] = QueueUpdate(@, EventLoop, "draw", TRUE)]
    /\ UNCHANGED << updates, handledEvents, started, finished, returned >>
    /\ QueueUnchanged

\* "case update := <-a.updates".
LoopTakeUpdate ==
    /\ goroutine[EventLoop].pc = "select"
    /\ updates # << >>
    /\ LET u == Head(updates)
           g == TakeUpdate(goroutine[EventLoop], u)
       IN  /\ goroutine' = [goroutine EXCEPT ![EventLoop] = g]
           /\ started' = IF g.pc = "f" THEN [started EXCEPT ![u.id] = @ + 1] ELSE started
    /\ updates' = Tail(updates)
    /\ UNCHANGED << handledEvents, finished, returned >>
    /\ QueueUnchanged

\* update.f() runs on the event loop: it returns, goes on to a.draw()
\* (QueueUpdateDraw, Draw), or calls Application.Draw() itself.
RunUpdate ==
    /\ goroutine[EventLoop].pc = "f"
    /\ LET g == goroutine[EventLoop]
       IN  CASE g.cur.kind = "draw" ->
                  /\ goroutine' = [goroutine EXCEPT ![EventLoop] = [@ EXCEPT !.pc = "draw"]]
                  /\ finished' = finished
             [] g.cur.kind = "nested" /\ g.calls < MaxCalls ->
                  /\ goroutine' = [goroutine EXCEPT ![EventLoop] =
                                       QueueUpdate(@, EventLoop, "draw", TRUE)]
                  /\ finished' = finished
             [] OTHER ->
                  /\ goroutine' = [goroutine EXCEPT ![EventLoop] = AfterF(@)]
                  /\ finished' = [finished EXCEPT ![g.cur.id] = @ + 1]
    /\ UNCHANGED << updates, handledEvents, started, returned >>
    /\ QueueUnchanged

\* a.draw() on the event loop, after an event or as the end of a queued function.
LoopDraw ==
    /\ goroutine[EventLoop].pc = "draw"
    /\ LET g == goroutine[EventLoop]
       IN  IF g.cur = NULL
           THEN /\ goroutine' = [goroutine EXCEPT ![EventLoop] =
                                     [@ EXCEPT !.pc = "select", !.act = "none"]]
                /\ finished' = finished
           ELSE /\ goroutine' = [goroutine EXCEPT ![EventLoop] = AfterF(@)]
                /\ finished' = [finished EXCEPT ![g.cur.id] = @ + 1]
    /\ UNCHANGED << updates, handledEvents, started, returned >>
    /\ QueueUnchanged

LoopStep == LoopTakeUpdate \/ RunUpdate \/ LoopDraw \/ HandlerReturn \/ HandlerCallsDraw

NextQueue ==
    \/ \E t \in Goroutines : Call(t) \/ CallSync(t)
    \/ \E t \in Threads : Send(t) \/ Receive(t)
    \/ LoopTakeEvent \/ LoopStep

SpecQueue == InitQueue /\ [][NextQueue]_vars

\* The scheduler runs every goroutine that can take a step: the event loop goes
\* on, and a send or a receive that can complete does complete.
SpecQueueLive ==
    /\ SpecQueue
    /\ WF_vars(LoopStep)
    /\ \A t \in Threads : WF_vars(Send(t)) /\ WF_vars(Receive(t))

\* ------------------------------------------------------------------ pages

\* Pages.pages is a slice of page values; page pg of the interface is element
\* pg + 1 of the sequence.
AddPage(ps, item, visible) == Append(ps, [item |-> item, visible |-> visible])

HasPage(ps, pg) == pg >= 0 /\ pg < Len(ps)

GetVisible(ps, pg) == ps[pg + 1].visible

ShowPage(ps, pg) == [ps EXCEPT ![pg + 1].visible = TRUE]

HidePage(ps, pg) == [ps EXCEPT ![pg + 1].visible = FALSE]

\* "for _, page := range p.pages { page.visible = false }": the loop variable
\* is a copy of the element, the slice keeps its values.
RangeHideAll(ps) == ps

SwitchToPage(ps, pg) == [RangeHideAll(ps) EXCEPT ![pg + 1].visible = TRUE]

\* The loop of RemovePage that looks for a remaining visible page:
\* "page.visible = true" is again an assignment to the copy.
RangeShowLast(ps) == ps

\* RemovePage: the slice without element pg, then the read of p.pages[pg] in
\* the shortened slice, which is out of range if pg was the last index.
RemovePage(ps, pg) ==
    LET cut == SubSeq(ps, 1, pg) \o SubSeq(ps, pg + 2, Len(ps))
    IN  IF pg >= Len(cut) THEN [pages |-> cut, panic |-> TRUE]
        ELSE [pages |-> IF cut[pg + 1].visible THEN RangeShowLast(cut) ELSE cut,
              panic |-> FALSE]

InitPages ==
    /\ NoApplication /\ NoQueue
    /\ pc = "pages"
    /\ pages = << >>
    /\ layers = NULL /\ NoHandlers

PagesUnchanged ==
    UNCHANGED << front, back, frameVars, appVars, queueVars, layers, handlerVars >>

PAddPage ==
    /\ pc = "pages" /\ fwrites < MaxPageOps /\ Len(pages) < MaxPages
    /\ \E visible \in BOOLEAN :
          /\ pages' = AddPage(pages, fwrites, visible)
          /\ last' = [op |-> "AddPage", pg |-> Len(pages), before |-> pages, panic |-> FALSE]
    /\ fwrites' = fwrites + 1
    /\ PagesUnchanged

PShowPage ==
    /\ pc = "pages" /\ fwrites < MaxPageOps
    /\ \E pg \in 0..(Len(pages) - 1) :
          /\ pages' = ShowPage(pages, pg)
          /\ last' = [op |-> "ShowPage", pg |-> pg, before |-> pages, panic |-> FALSE]
    /\ fwrites' = fwrites + 1
    /\ PagesUnchanged

PHidePage ==
    /\ pc = "pages" /\ fwrites < MaxPageOps
    /\ \E pg \in 0..(Len(pages) - 1) :
          /\ pages' = HidePage(pages, pg)
          /\ last' = [op |-> "HidePage", pg |-> pg, before |-> pages, panic |-> FALSE]
    /\ fwrites' = fwrites + 1
    /\ PagesUnchanged

PSwitchToPage ==
    /\ pc = "pages" /\ fwrites < MaxPageOps
    /\ \E pg \in 0..(Len(pages) - 1) :
          /\ pages' = SwitchToPage(pages, pg)
          /\ last' = [op |-> "SwitchToPage", pg |-> pg, before |-> pages, panic |-> FALSE]
    /\ fwrites' = fwrites + 1
    /\ PagesUnchanged

\* RemovePage of an existing page; a panic ends the run.
PRemovePage ==
    /\ pc = "pages" /\ fwrites < MaxPageOps
    /\ \E pg \in 0..(Len(pages) - 1) :
          LET r == RemovePage(pages, pg)
          IN  /\ pages' = r.pages
              /\ last' = [op |-> "RemovePage", pg |-> pg, before |-> pages,
                          panic |-> r.panic]
              /\ pc' = IF r.panic THEN "crashed" ELSE pc
    /\ fwrites' = fwrites + 1
    /\ UNCHANGED << front, back, frameVars, term, size, root, hasFrames, forceRedraw, dForce, spaces,
                    script, prevScript, passes, queueVars, layers, handlerVars >>

NextPages == PAddPage \/ PShowPage \/ PHidePage \/ PSwitchToPage \/ PRemovePage

SpecPages == InitPages /\ [][NextPages]_vars

(***************************************************************************)
(* Layers (src/layers/layers.go): a container of primitives stacked back   *)
(* to front.  layers.layers is the slice l.layers, index 1 the back-most   *)
(* layer; each layer carries its flags and itemFocus, the hasFocus flag of *)
(* its item (a Box).  hasFocus is the flag of the container's own Box,     *)
(* setFocus tells whether l.setFocus is non-nil and appFocus is            *)
(* Application.focus: a layer name, "layers" for the container, "other"    *)
(* for a primitive outside the container, "gone" for the item of a layer   *)
(* that was removed or replaced, "none" for nil.  delegated is the         *)
(* primitive Layers.Focus chose during the current operation: a layer      *)
(* name, "box" for the container's own Box, "none" if Focus did not run.   *)
(***************************************************************************)
\* The names given to layers with WithName.
LayerNames == { << "a", "b", "c", "d" >>[i] : i \in 1..MaxLayers }

\* The index of the first layer with the name (the loops break at the first
\* match), 0 for none.
IndexOfLayer(ls, name) ==
    LET S == { i \in 1..Len(ls) : ls[i].name = name }
    IN  IF S = {} THEN 0 ELSE CHOOSE i \in S : \A j \in S : i <= j

\* The slice without the element at index (1-based).
CutLayer(ls, index) == SubSeq(ls, 1, index - 1) \o SubSeq(ls, index + 1, Len(ls))

\* A front-most layer chosen without looking at the enabled flag.
topVisibleLayer(ls) ==
    LET S == { i \in 1..Len(ls) : ls[i].visible }
    IN  IF S = {} THEN 0 ELSE CHOOSE i \in S : \A j \in S : j <= i

\* The index of the front-most layer with visible && enabled, 0 for nil.
topVisibleEnabledLayer(ls) ==
    LET S == { i \in 1..Len(ls) : ls[i].visible /\ ls[i].enabled }
    IN  IF S = {} THEN 0 ELSE CHOOSE i \in S : \A j \in S : j <= i

\* The index of the front-most layer with visible && enabled && overlay,
\* 0 where the code returns -1.
topVisibleEnabledOverlayIndex(ls) ==
    LET S == { i \in 1..Len(ls) : ls[i].visible /\ ls[i].enabled /\ ls[i].overlay }
    IN  IF S = {} THEN 0 ELSE CHOOSE i \in S : \A j \in S : j <= i

LayersHasFocus(l) ==
    \/ \E i \in 1..Len(l.layers) : l.layers[i].enabled /\ l.layers[i].itemFocus
    \/ l.hasFocus

\* a.focus.Blur() of Application.SetFocus: the primitive that holds the
\* application's focus pointer drops its flag.
BlurAppFocus(l) ==
    IF l.appFocus = "layers" THEN [l EXCEPT !.hasFocus = FALSE]
    ELSE IF l.appFocus \in LayerNames /\ IndexOfLayer(l.layers, l.appFocus) # 0
    THEN [l EXCEPT !.layers[IndexOfLayer(l.layers, l.appFocus)].itemFocus = FALSE]
    ELSE l

\* Application.SetFocus(item) for the item of the layer at index: Blur of
\* the old focus, a.focus = item, item.Focus (Box.Focus sets hasFocus).
SetFocusItem(l, index) ==
    LET b == BlurAppFocus(l)
    IN  [b EXCEPT !.appFocus = l.layers[index].name,
                  !.layers[index].itemFocus = TRUE]

\* Layers.Focus with a non-nil delegate.
LayersFocus(l) ==
    LET top == topVisibleEnabledLayer(l.layers)
        s == [l EXCEPT !.setFocus = TRUE]
    IN  IF top # 0
        THEN [SetFocusItem(s, top) EXCEPT !.delegated = l.layers[top].name]
        ELSE [s EXCEPT !.hasFocus = TRUE, !.delegated = "box"]

\* if hasFocus { l.Focus(l.setFocus) }: Focus returns at once on a nil
\* delegate.
Refocus(l, hasFocus) == IF hasFocus /\ l.setFocus THEN LayersFocus(l) ELSE l

\* An AddLayer that leaves a layer of the same name in place.
AddLayerKeepOld(l, name, visible, enabled, overlay) ==
    LET newLayer == [name |-> name, visible |-> visible, enabled |-> enabled,
                     overlay |-> overlay, itemFocus |-> FALSE]
    IN  Refocus([l EXCEPT !.layers = Append(@, newLayer)], LayersHasFocus(l))

AddLayer(l, name, visible, enabled, overlay) ==
    LET old == IndexOfLayer(l.layers, name)
        newLayer == [name |-> name, visible |-> visible, enabled |-> enabled,
                     overlay |-> overlay, itemFocus |-> FALSE]
        kept == IF old # 0 THEN CutLayer(l.layers, old) ELSE l.layers
        a == [l EXCEPT !.layers = Append(kept, newLayer),
                       !.appFocus = IF old # 0 /\ @ = name THEN "gone" ELSE @]
    IN  Refocus(a, LayersHasFocus(l))

RemoveLayer(l, name) ==
    LET index == IndexOfLayer(l.layers, name)
        r == IF index = 0 THEN l
             ELSE [l EXCEPT !.layers = CutLayer(@, index),
                            !.appFocus = IF @ = name THEN "gone" ELSE @]
    IN  Refocus(r, LayersHasFocus(l))

ShowLayer(l, name) ==
    LET index == IndexOfLayer(l.layers, name)
        s == IF index = 0 THEN l ELSE [l EXCEPT !.layers[index].visible = TRUE]
    IN  Refocus(s, LayersHasFocus(s))

HideLayer(l, name) ==
    LET index == IndexOfLayer(l.layers, name)
        h == IF index = 0 THEN l ELSE [l EXCEPT !.layers[index].visible = FALSE]
    IN  Refocus(h, LayersHasFocus(h))

SendToFront(l, name) ==
    LET index == IndexOfLayer(l.layers, name)
        f == IF index = 0 THEN l
             ELSE [l EXCEPT !.layers = Append(CutLayer(@, index), @[index])]
    IN  Refocus(f, LayersHasFocus(f))

SendToBack(l, name) ==
    LET index == IndexOfLayer(l.layers, name)
        b == IF index = 0 THEN l
             ELSE [l EXCEPT !.layers = << @[index] >> \o CutLayer(@, index)]
    IN  Refocus(b, LayersHasFocus(b))

SetLayerEnabled(l, name, enabled) ==
    LET index == IndexOfLayer(l.layers, name)
        e == IF index = 0 \/ l.layers[index].enabled = enabled THEN l
             ELSE [l EXCEPT !.layers[index].enabled = enabled,
                            !.layers[index].itemFocus = IF ~enabled THEN FALSE ELSE @]
    IN  Refocus(e, LayersHasFocus(l))

ClearLayerOverlay(l, name) ==
    LET index == IndexOfLayer(l.layers, name)
    IN  IF index = 0 THEN l ELSE [l EXCEPT !.layers[index].overlay = FALSE]

\* The loop of MouseHandler from index down to the back: the names of the
\* layers whose mouse handler was called and the index of the layer that
\* consumed the event (0 for none).  hits are the layers whose item reports
\* the event as consumed.
RECURSIVE MouseWalk(_, _, _, _)
MouseWalk(ls, index, overlayIndex, hits) ==
    IF index = 0 THEN [recipients |-> {}, by |-> 0]
    ELSE IF ~ls[index].visible \/ ~ls[index].enabled
    THEN MouseWalk(ls, index - 1, overlayIndex, hits)
    ELSE IF overlayIndex > 0 /\ index < overlayIndex
    THEN [recipients |-> {}, by |-> 0]
    ELSE IF ls[index].name \in hits
    THEN [recipients |-> { ls[index].name }, by |-> index]
    ELSE LET rest == MouseWalk(ls, index - 1, overlayIndex, hits)
         IN  [rest EXCEPT !.recipients = @ \cup { ls[index].name }]

\* Layers.MouseHandler for an event inside (inRect) or outside the
\* container's rectangle.  An item that consumes the event is a Box whose
\* MouseHandler calls setFocus on itself.
MouseHandler(l, inRect, hits) ==
    IF ~inRect THEN [l |-> l, recipients |-> {}, consumed |-> FALSE]
    ELSE LET overlayIndex == topVisibleEnabledOverlayIndex(l.layers)
             walk == MouseWalk(l.layers, Len(l.layers), overlayIndex, hits)
         IN  [l |-> IF walk.by # 0 THEN SetFocusItem(l, walk.by) ELSE l,
              recipients |-> walk.recipients,
              consumed |-> walk.by # 0 \/ overlayIndex > 0]

\* Layers.InputHandler and Layers.PasteHandler: the first layer of the slice
\* with enabled && item.HasFocus() gets the event.
InputHandler(l) ==
    LET S == { i \in 1..Len(l.layers) : l.layers[i].enabled /\ l.layers[i].itemFocus }
    IN  IF S = {} THEN {}
        ELSE { l.layers[CHOOSE i \in S : \A j \in S : i <= j].name }

PasteHandler(l) == InputHandler(l)

InitLayers ==
    /\ NoApplication /\ NoQueue
    /\ pc = "layers"
    /\ pages = NULL /\ NoHandlers
    /\ layers = [layers |-> << >>, hasFocus |-> FALSE, setFocus |-> FALSE,
                 appFocus |-> "none", delegated |-> "none"]

LayersUnchanged ==
    UNCHANGED << front, back, fwrites, frameVars, appVars, queueVars, pages, handlerVars >>

\* The state an operation starts from: no delegate chosen yet.
Entry == [layers EXCEPT !.delegated = "none"]

LAddLayer ==
    /\ pc = "layers"
    /\ \E name \in LayerNames, visible \in BOOLEAN, enabled \in BOOLEAN,
          overlay \in BOOLEAN :
        /\ layers' = AddLayer(Entry, name, visible, enabled, overlay)
        /\ last' = [op |-> "AddLayer", name |-> name,
                    index |-> IndexOfLayer(Entry.layers, name)]
    /\ LayersUnchanged

LRemoveLayer ==
    /\ pc = "layers"
    /\ \E name \in LayerNames :
        /\ layers' = RemoveLayer(Entry, name)
        /\ last' = [op |-> "RemoveLayer", name |-> name]
    /\ LayersUnchanged

LShowLayer ==
    /\ pc = "layers"
    /\ \E name \in LayerNames :
        /\ layers' = ShowLayer(Entry, name)
        /\ last' = [op |-> "ShowLayer", name |-> name]
    /\ LayersUnchanged

LHideLayer ==
    /\ pc = "layers"
    /\ \E name \in LayerNames :
        /\ layers' = HideLayer(Entry, name)
        /\ last' = [op |-> "HideLayer", name |-> name]
    /\ LayersUnchanged

LSendToFront ==
    /\ pc = "layers"
    /\ \E name \in LayerNames :
        /\ layers' = SendToFront(Entry, name)
        /\ last' = [op |-> "SendToFront", name |-> name,
                    index |-> IndexOfLayer(Entry.layers, name)]
    /\ LayersUnchanged

LSendToBack ==
    /\ pc = "layers"
    /\ \E name \in LayerNames :
        /\ layers' = SendToBack(Entry, name)
        /\ last' = [op |-> "SendToBack", name |-> name,
                    index |-> IndexOfLayer(Entry.layers, name)]
    /\ LayersUnchanged

LSetLayerEnabled ==
    /\ pc = "layers"
    /\ \E name \in LayerNames, enabled \in BOOLEAN :
        /\ layers' = SetLayerEnabled(Entry, name, enabled)
        /\ last' = [op |-> "SetLayerEnabled", name |-> name]
    /\ LayersUnchanged

LClearLayerOverlay ==
    /\ pc = "layers"
    /\ \E name \in LayerNames :
        /\ layers' = ClearLayerOverlay(Entry, name)
        /\ last' = [op |-> "ClearLayerOverlay", name |-> name]
    /\ LayersUnchanged

\* Application.SetFocus(p) for the container, for the item of one of its
\* layers, or for a primitive outside the container.
LSetFocus ==
    /\ pc = "layers"
    /\ \E p \in LayerNames \cup { "layers", "other" } :
        /\ p \in LayerNames => IndexOfLayer(layers.layers, p) # 0
        /\ layers' =
             IF p = "layers"
             THEN LayersFocus([BlurAppFocus(Entry) EXCEPT !.appFocus = "layers"])
             ELSE IF p = "other"
             THEN [BlurAppFocus(Entry) EXCEPT !.appFocus = "other"]
             ELSE SetFocusItem(Entry, IndexOfLayer(layers.layers, p))
        /\ last' = [op |-> "SetFocus", name |-> p]
    /\ LayersUnchanged

LMouse ==
    /\ pc = "layers"
    /\ \E inRect \in BOOLEAN, hits \in SUBSET LayerNames :
        LET m == MouseHandler(Entry, inRect, hits)
        IN  /\ layers' = m.l
            /\ last' = [op |-> "mouse", before |-> layers.layers,
                        inRect |-> inRect, hits |-> hits,
                        recipients |-> m.recipients, consumed |-> m.consumed]
    /\ LayersUnchanged

LKey ==
    /\ pc = "layers"
    /\ layers' = Entry
    /\ last' = [op |-> "key", before |-> layers.layers,
                recipients |-> InputHandler(layers)]
    /\ LayersUnchanged

LPaste ==
    /\ pc = "layers"
    /\ layers' = Entry
    /\ last' = [op |-> "paste", before |-> layers.layers,
                recipients |-> PasteHandler(layers)]
    /\ LayersUnchanged

NextLayers ==
    \/ LAddLayer \/ LRemoveLayer \/ LShowLayer \/ LHideLayer
    \/ LSendToFront \/ LSendToBack \/ LSetLayerEnabled \/ LClearLayerOverlay
    \/ LSetFocus \/ LMouse \/ LKey \/ LPaste

SpecLayers == InitLayers /\ [][NextLayers]_vars

(***************************************************************************)
(* Key and paste events in the event loop of Application.Run               *)
(* (src/application.go 232-317).  paste holds the loop's locals pasting    *)
(* and pasteBuffer (a sequence of the strings written to it), whether      *)
(* a.root is non-nil and whether root.HasFocus().  The root is a Box-based *)
(* primitive: its InputHandler and PasteHandler are never nil.  last       *)
(* records the event and, in order, what its handling called: "capture"    *)
(* (a.inputCapture), "stop" (a.Stop), "input" (the root's input handler),  *)
(* the delivery of a text to the root's paste handler, "draw" (a.draw).    *)
(***************************************************************************)
\* The keys of a key event: a rune key with text "x", Enter, Tab, Ctrl-C and
\* one more key.
Keys == { "KeyRune", "KeyEnter", "KeyTab", "KeyCtrlC", "KeyEsc" }

\* What a.inputCapture does with a key event: none is installed, it returns
\* the event, it returns another event, it returns nil.
Captures == { "nil", "same", "other", "drop" }

\* The switch on event.Key() while pasting: what is written to pasteBuffer.
\* A paste that skips the Tab key.
PasteTextNoTab(key) ==
    CASE key = "KeyRune" -> << "x" >>
      [] key = "KeyEnter" -> << "\n" >>
      [] OTHER -> << >>

PasteText(key) ==
    CASE key = "KeyRune" -> << "x" >>
      [] key = "KeyEnter" -> << "\n" >>
      [] key = "KeyTab" -> << "\t" >>
      [] OTHER -> << >>

\* case *tcell.EventKey: the new paste state, the calls made, and whether
\* the application was stopped.
HandleKey(p, key, capture) ==
    IF p.pasting
    THEN [paste |-> [p EXCEPT !.pasteBuffer = @ \o PasteText(key)],
          calls |-> << >>, stopped |-> FALSE]
    ELSE IF capture = "drop"
    THEN [paste |-> p, calls |-> << "capture", "draw" >>, stopped |-> FALSE]
    ELSE LET captured == IF capture = "nil" THEN << >> ELSE << "capture" >>
         IN  IF capture # "other" /\ key = "KeyCtrlC"
             THEN [paste |-> p, calls |-> captured \o << "stop" >>, stopped |-> TRUE]
             ELSE LET handled == IF p.root /\ p.hasFocus THEN << "input" >> ELSE << >>
                      draw == IF capture # "nil" \/ handled # << >>
                              THEN << "draw" >> ELSE << >>
                  IN  [paste |-> p, calls |-> captured \o handled \o draw,
                       stopped |-> FALSE]

\* case *tcell.EventPaste with event.Start().
HandlePasteStart(p) ==
    [paste |-> [p EXCEPT !.pasting = TRUE, !.pasteBuffer = << >>], calls |-> << >>]

\* case *tcell.EventPaste with event.End().
HandlePasteEnd(p) ==
    [paste |-> [p EXCEPT !.pasting = FALSE],
     calls |-> IF p.root /\ p.hasFocus /\ Len(p.pasteBuffer) > 0
               THEN << [paste |-> p.pasteBuffer], "draw" >>
               ELSE << >>]

InitPaste ==
    /\ NoApplication /\ NoQueue
    /\ pc = "paste"
    /\ pages = NULL /\ layers = NULL /\ mouse = NULL /\ form = NULL
    /\ \E r \in BOOLEAN, f \in BOOLEAN :
          /\ f => r
          /\ paste = [pasting |-> FALSE, pasteBuffer |-> << >>, root |-> r, hasFocus |-> f]

PasteUnchanged ==
    UNCHANGED << front, back, frameVars, term, size, root, hasFrames, forceRedraw, dForce,
                 spaces, script, prevScript, passes, queueVars, widgetVars, mouse, form >>

EKey ==
    /\ pc = "paste" /\ fwrites < MaxPasteEvents
    /\ \E key \in Keys, capture \in Captures :
        LET h == HandleKey(paste, key, capture)
        IN  /\ Len(h.paste.pasteBuffer) <= MaxPasteLen
            /\ paste' = h.paste
            /\ pc' = IF h.stopped THEN "stopped" ELSE pc
            /\ last' = [op |-> "key", key |-> key, capture |-> capture, before |-> paste,
                        calls |-> h.calls]
    /\ fwrites' = fwrites + 1
    /\ PasteUnchanged

EPasteStart ==
    /\ pc = "paste" /\ fwrites < MaxPasteEvents
    /\ paste' = HandlePasteStart(paste).paste
    /\ last' = [op |-> "pasteStart", before |-> paste, calls |-> HandlePasteStart(paste).calls]
    /\ fwrites' = fwrites + 1
    /\ pc' = pc
    /\ PasteUnchanged

EPasteEnd ==
    /\ pc = "paste" /\ fwrites < MaxPasteEvents
    /\ paste' = HandlePasteEnd(paste).paste
    /\ last' = [op |-> "pasteEnd", before |-> paste, calls |-> HandlePasteEnd(paste).calls]
    /\ fwrites' = fwrites + 1
    /\ pc' = pc
    /\ PasteUnchanged

\* Between two events the focus moves to or away from the root (SetFocus from
\* a queued update).
EFocus ==
    /\ pc = "paste" /\ paste.root
    /\ paste' = [paste EXCEPT !.hasFocus = ~@]
    /\ last' = [op |-> "focus", before |-> paste, calls |-> << >>]
    /\ UNCHANGED << fwrites, pc >>
    /\ PasteUnchanged

NextPaste == EKey \/ EPasteStart \/ EPasteEnd \/ EFocus

SpecPaste == InitPaste /\ [][NextPaste]_vars

(***************************************************************************)
(* Mouse events in the event loop (src/application.go 329-337) and         *)
(* fireMouseActions (355-452).  mouse holds a.lastMouseButtons,            *)
(* a.lastMouseX/Y, a.mouseDownX/Y, a.lastMouseClick, whether               *)
(* a.mouseCapturingPrimitive and a.root are non-nil (a root is set from    *)
(* the start), and the wall clock in milliseconds.  Buttons   *)
(* are the primary and the secondary button and one wheel direction.       *)
(***************************************************************************)
\* The zero time.Time{}: further than DoubleClickInterval before every now.
ZeroTime == 0 - DoubleClickInterval - 1

MouseButtons == << "ButtonPrimary", "ButtonSecondary" >>

WheelButtons == << "WheelUp" >>

MousePositions == { << 0, 0 >>, << 1, 0 >> }

\* The table of fireMouseActions: the actions of each button.
ButtonActions ==
    [ButtonPrimary |-> [down |-> "MouseLeftDown", up |-> "MouseLeftUp",
                        click |-> "MouseLeftClick", dclick |-> "MouseLeftDoubleClick"],
     ButtonSecondary |-> [down |-> "MouseRightDown", up |-> "MouseRightUp",
                          click |-> "MouseRightClick", dclick |-> "MouseRightDoubleClick"]]

WheelActions == [WheelUp |-> "MouseScrollUp"]

\* The environment of one mouse event: the event (nil once swallowAt calls of
\* a.mouseCapture have been made, 0: it is never nil), and what the mouse
\* handler of the target primitive returns.
\* The closure fire(action): st holds the calls made so far, targetPrimitive
\* and a.mouseCapturingPrimitive being non-nil, and a.lastMouseClick.
EventIsNil(st, env) == env.swallowAt > 0 /\ Len(st.calls) >= env.swallowAt

fire(st, action, env) ==
    LET swallowed == env.swallowAt > 0 /\ Len(st.calls) + 1 >= env.swallowAt
        primitive == st.capturing \/ st.target \/ env.root
    IN  IF swallowed
        THEN [st EXCEPT !.calls = Append(@, [action |-> action, forwarded |-> FALSE]),
                        !.consumed = TRUE]
        ELSE [st EXCEPT !.calls = Append(@, [action |-> action, forwarded |-> primitive]),
                        !.consumed = @ \/ (primitive /\ env.handler.consumed),
                        !.target = @ \/ st.capturing,
                        !.capturing = primitive /\ env.handler.capture]

\* A release that never fires the double click.
ReleaseClickOnly(st, acts, now, env) ==
    [fire(st, acts.click, env) EXCEPT !.lastMouseClick = now]

\* The release branch after fire(buttonEvent.up): click or double click.
Release(st, acts, now, env) ==
    IF st.lastMouseClick + DoubleClickInterval < now
    THEN [fire(st, acts.click, env) EXCEPT !.lastMouseClick = now]
    ELSE [fire(st, acts.dclick, env) EXCEPT !.lastMouseClick = ZeroTime]

\* One iteration of the loop over the buttons.
ButtonStep(st, b, m, ev, now, env) ==
    LET acts == ButtonActions[b]
        changed == (b \in ev.buttons) # (b \in m.lastMouseButtons)
        clickMoved == ev.pos # m.mouseDown
    IN  IF ~changed THEN st
        ELSE IF b \in ev.buttons THEN fire(st, acts.down, env)
        ELSE CHOOSE r \in { IF ~clickMoved /\ ~EventIsNil(up, env)
                            THEN Release(up, acts, now, env)
                            ELSE up : up \in { fire(st, acts.up, env) } } : TRUE

WheelStep(st, b, ev, env) ==
    IF b \in ev.buttons THEN fire(st, WheelActions[b], env) ELSE st

\* fireMouseActions: the move, the loop over the buttons, the loop over the
\* wheel directions, each step working on the result of the one before.
fireMouseActions(m, ev, now, env) ==
    CHOOSE r \in
        { [calls |-> s4.calls, consumed |-> s4.consumed,
           isMouseDownAction |->
               \E i \in 1..Len(s4.calls) :
                   s4.calls[i].action \in { "MouseLeftDown", "MouseRightDown" },
           mouse |-> [m EXCEPT !.lastMouse = ev.pos, !.capturing = s4.capturing,
                               !.lastMouseClick = s4.lastMouseClick]] :
          s4 \in { WheelStep(s3, WheelButtons[1], ev, env) :
          s3 \in { ButtonStep(s2, MouseButtons[2], m, ev, now, env) :
          s2 \in { ButtonStep(s1, MouseButtons[1], m, ev, now, env) :
          s1 \in { IF ev.pos # m.lastMouse THEN fire(s0, "MouseMove", env) ELSE s0 :
          s0 \in { [calls |-> << >>, consumed |-> FALSE, target |-> FALSE,
                    capturing |-> m.capturing,
                    lastMouseClick |-> m.lastMouseClick] } } } } } } : TRUE

\* The time that passes before a mouse event arrives.
Delays == { 0, DoubleClickInterval, DoubleClickInterval + 1 }

\* What the mouse handler of the target primitive returns: consumed, and
\* whether it names a capturing primitive.
HandlerResults ==
    { [consumed |-> FALSE, capture |-> FALSE], [consumed |-> TRUE, capture |-> TRUE] }

\* event.Buttons() of the mouse events.
EventButtons ==
    { {}, { MouseButtons[1] }, { MouseButtons[2] }, { MouseButtons[1], MouseButtons[2] },
      { WheelButtons[1] }, { MouseButtons[1], WheelButtons[1] } }

InitMouse ==
    /\ NoApplication /\ NoQueue
    /\ pc = "mouse"
    /\ pages = NULL /\ layers = NULL /\ paste = NULL /\ form = NULL
    /\ mouse = [lastMouseButtons |-> {}, lastMouse |-> << 0, 0 >>, mouseDown |-> << 0, 0 >>,
                lastMouseClick |-> ZeroTime, capturing |-> FALSE, root |-> TRUE, now |-> 0]

MouseUnchanged ==
    UNCHANGED << front, back, fwrites, frameVars, appVars, queueVars, widgetVars, paste, form >>

\* case *tcell.EventMouse of the event loop.
EMouse ==
    /\ pc = "mouse"
    /\ \E pos \in MousePositions,
          buttons \in EventButtons,
          delay \in Delays, swallowAt \in 0..MaxFires, handler \in HandlerResults :
        LET now == mouse.now + delay
            ev == [pos |-> pos, buttons |-> buttons]
            env == [root |-> mouse.root, swallowAt |-> swallowAt, handler |-> handler]
        IN  \E r \in { fireMouseActions(mouse, ev, now, env) } :
            /\ now <= MaxClock
            /\ swallowAt <= Len(r.calls)
            /\ mouse' = [r.mouse EXCEPT !.lastMouseButtons = buttons,
                                        !.mouseDown = IF r.isMouseDownAction THEN pos ELSE @,
                                        !.now = now]
            /\ last' = [op |-> "mouse", before |-> mouse, ev |-> ev, swallowAt |-> swallowAt,
                        calls |-> r.calls, draw |-> r.consumed,
                        dclicked |-> (last.op = "mouse" /\ last.dclicked)
                                     \/ \E i \in 1..Len(r.calls) :
                                            r.calls[i].action \in { "MouseLeftDoubleClick",
                                                                    "MouseRightDoubleClick" }]
    /\ MouseUnchanged

NextMouse == EMouse

SpecMouse == InitMouse /\ [][NextMouse]_vars

(***************************************************************************)
(* The dirty flags of a Form and of its items and buttons                  *)
(* (src/unnamed/part_005 414-419, 521-575; src/unnamed/part_006 380-515,   *)
(* 562-592).  form holds the form's Box.dirty, f.items and f.buttons as    *)
(* sequences of primitive names, and for every primitive its Box.dirty and *)
(* its Box.dirtyParent: "form" (the form's Box), "other" (the Box of some  *)
(* other container) or "none" (nil).  A button that AddButton has not yet  *)
(* created is NULL.                                                        *)
(***************************************************************************)
FormItems == { "item1", "item2" }

ButtonNames == << "button1", "button2", "button3", "button4" >>

FormButtons == { ButtonNames[i] : i \in 1..MaxButtons }

\* slices.Delete(s, index, index+1), index counted from 1.
DeleteAt(s, index) == [i \in 1..(Len(s) - 1) |-> IF i < index THEN s[i] ELSE s[i + 1]]

SeqHas(s, c) == \E i \in 1..Len(s) : s[i] = c

\* Box.MarkDirty that does not notify dirtyParent.
MarkDirtyNoParent(f, c) == [f EXCEPT !.prim[c].dirty = TRUE]

\* Box.MarkDirty of primitive c: the parent is notified on the transition
\* from clean to dirty.  The form's own Box has no dirtyParent here.
MarkDirty(f, c) ==
    IF f.prim[c].dirty THEN f
    ELSE [f EXCEPT !.prim[c].dirty = TRUE,
                   !.dirty = @ \/ f.prim[c].dirtyParent = "form"]

\* Box.MarkDirty of the form's Box.
FormMarkDirty(f) == [f EXCEPT !.dirty = TRUE]

\* Box.MarkClean of primitive c.
MarkClean(f, c) == [f EXCEPT !.prim[c].dirty = FALSE]

\* bindDirtyParent(c, f.Box) and unbindDirtyParent(c, f.Box).
bindDirtyParent(f, c) == [f EXCEPT !.prim[c].dirtyParent = "form"]

unbindDirtyParent(f, c) ==
    [f EXCEPT !.prim[c].dirtyParent = IF @ = "form" THEN "none" ELSE @]

unbindAll(f, cs) ==
    [f EXCEPT !.prim = [c \in DOMAIN f.prim |->
                           IF c \in cs /\ f.prim[c] # NULL /\ f.prim[c].dirtyParent = "form"
                           THEN [f.prim[c] EXCEPT !.dirtyParent = "none"]
                           ELSE f.prim[c]]]

AddFormItem(f, c) ==
    FormMarkDirty([bindDirtyParent(f, c) EXCEPT !.items = Append(@, c)])

\* AddButton: NewButton makes a dirty Box.
AddButton(f, c) ==
    FormMarkDirty([f EXCEPT !.prim[c] = [dirty |-> TRUE, dirtyParent |-> "form"],
                            !.buttons = Append(@, c)])

RemoveFormItem(f, index) ==
    LET item == f.items[index]
        g == [f EXCEPT !.items = DeleteAt(@, index)]
    IN  FormMarkDirty(IF SeqHas(g.items, item) THEN g ELSE unbindDirtyParent(g, item))

RemoveButton(f, index) ==
    LET button == f.buttons[index]
        g == [f EXCEPT !.buttons = DeleteAt(@, index)]
    IN  FormMarkDirty(IF SeqHas(g.buttons, button) THEN g ELSE unbindDirtyParent(g, button))

ClearButtons(f) ==
    IF Len(f.buttons) > 0
    THEN FormMarkDirty([unbindAll(f, { f.buttons[i] : i \in 1..Len(f.buttons) })
                           EXCEPT !.buttons = << >>])
    ELSE f

FormClear(f, includeButtons) ==
    LET changed == Len(f.items) > 0 \/ (includeButtons /\ Len(f.buttons) > 0)
        g == [unbindAll(f, { f.items[i] : i \in 1..Len(f.items) }) EXCEPT !.items = << >>]
        h == IF includeButtons THEN ClearButtons(g) ELSE g
    IN  IF changed THEN FormMarkDirty(h) ELSE h

\* Form.MarkClean: the Box, every item, every button.
FormMarkClean(f) ==
    LET members == { f.items[i] : i \in 1..Len(f.items) }
                       \cup { f.buttons[i] : i \in 1..Len(f.buttons) }
    IN  [f EXCEPT !.dirty = FALSE,
                  !.prim = [c \in DOMAIN f.prim |->
                               IF c \in members THEN [f.prim[c] EXCEPT !.dirty = FALSE]
                               ELSE f.prim[c]]]

\* The primitives that exist.
Created(f) == { c \in DOMAIN f.prim : f.prim[c] # NULL }

InitForm ==
    /\ NoApplication /\ NoQueue
    /\ pc = "form"
    /\ pages = NULL /\ layers = NULL /\ paste = NULL /\ mouse = NULL
    /\ \E d \in [FormItems -> BOOLEAN], p \in [FormItems -> { "none", "other" }] :
          form = [dirty |-> TRUE, items |-> << >>, buttons |-> << >>,
                  prim |-> [c \in FormItems \cup FormButtons |->
                               IF c \in FormItems
                               THEN [dirty |-> d[c], dirtyParent |-> p[c]]
                               ELSE NULL]]

FormUnchanged ==
    UNCHANGED << front, back, fwrites, frameVars, appVars, queueVars, widgetVars, paste, mouse >>

DAddFormItem ==
    /\ pc = "form" /\ Len(form.items) < MaxFormItems
    /\ \E c \in FormItems :
          /\ form' = AddFormItem(form, c)
          /\ last' = [op |-> "AddFormItem", child |-> c, before |-> form]
    /\ FormUnchanged

DAddButton ==
    /\ pc = "form"
    /\ \E i \in 1..MaxButtons :
          /\ form.prim[ButtonNames[i]] = NULL
          /\ \A j \in 1..(i - 1) : form.prim[ButtonNames[j]] # NULL
          /\ form' = AddButton(form, ButtonNames[i])
          /\ last' = [op |-> "AddButton", child |-> ButtonNames[i], before |-> form]
    /\ FormUnchanged

DRemoveFormItem ==
    /\ pc = "form"
    /\ \E index \in 1..Len(form.items) :
          /\ form' = RemoveFormItem(form, index)
          /\ last' = [op |-> "RemoveFormItem", child |-> form.items[index], before |-> form]
    /\ FormUnchanged

DRemoveButton ==
    /\ pc = "form"
    /\ \E index \in 1..Len(form.buttons) :
          /\ form' = RemoveButton(form, index)
          /\ last' = [op |-> "RemoveButton", child |-> form.buttons[index], before |-> form]
    /\ FormUnchanged

DClear ==
    /\ pc = "form"
    /\ \E includeButtons \in BOOLEAN :
          /\ form' = FormClear(form, includeButtons)
          /\ last' = [op |-> "Clear", child |-> "none", before |-> form]
    /\ FormUnchanged

DChildMarkDirty ==
    /\ pc = "form"
    /\ \E c \in Created(form) :
          /\ form' = MarkDirty(form, c)
          /\ last' = [op |-> "MarkDirty", child |-> c, before |-> form]
    /\ FormUnchanged

DChildMarkClean ==
    /\ pc = "form"
    /\ \E c \in Created(form) :
          /\ form' = MarkClean(form, c)
          /\ last' = [op |-> "MarkClean", child |-> c, before |-> form]
    /\ FormUnchanged

DFormMarkDirty ==
    /\ pc = "form"
    /\ form' = FormMarkDirty(form)
    /\ last' = [op |-> "Form.MarkDirty", child |-> "none", before |-> form]
    /\ FormUnchanged

DFormMarkClean ==
    /\ pc = "form"
    /\ form' = FormMarkClean(form)
    /\ last' = [op |-> "Form.MarkClean", child |-> "none", before |-> form]
    /\ FormUnchanged

\* Another container binds an item as its own child (setDirtyParent stores
\* the new parent whatever the old one was).
DBindElsewhere ==
    /\ pc = "form"
    /\ \E c \in FormItems :
          /\ form' = [form EXCEPT !.prim[c].dirtyParent = "other"]
          /\ last' = [op |-> "bindElsewhere", child |-> c, before |-> form]
    /\ FormUnchanged

NextForm ==
    \/ DAddFormItem \/ DAddButton \/ DRemoveFormItem \/ DRemoveButton \/ DClear
    \/ DChildMarkDirty \/ DChildMarkClean \/ DFormMarkDirty \/ DFormMarkClean
    \/ DBindElsewhere

SpecForm == InitForm /\ [][NextForm]_vars

\* ------------------------------------------------------------------ frame-level claims

CellIndexes(f) == DOMAIN f.cells
ColOf(f, i) == i % f.width
RowOf(f, i) == i \div f.width

\* The cell was written in an earlier generation and not since.
WrittenOnlyEarlier(i) == wroteEpoch[i] # 0 /\ wroteEpoch[i] < epoch

\* C6: a cell written in an earlier generation and not written again since the
\* last beginFrame() reads as absent, and a row span is valid only if the row
\* was written in the current generation.
GenerationIsolation ==
    /\ \A i \in CellIndexes(back) :
          WrittenOnlyEarlier(i) => ~cellAt(back, ColOf(back, i), RowOf(back, i)).ok
    /\ \A y \in 0..(back.height - 1) :
          rowSpan(back, y).ok =>
              \E i \in CellIndexes(back) : RowOf(back, i) = y /\ wroteEpoch[i] = epoch

\* A stale cell still physically holds its content, reads as absent, and another
\* cell was written in the current generation.
GenerationIsolationWitness ==
    /\ epoch > 1
    /\ \E i \in CellIndexes(back) :
          /\ WrittenOnlyEarlier(i)
          /\ back.cells[i].gen # 0
          /\ back.cells[i].text # ""
          /\ ~cellAt(back, ColOf(back, i), RowOf(back, i)).ok
    /\ \E j \in CellIndexes(back) : wroteEpoch[j] = epoch

\* C7: when beginFrame() wraps the counter, generation restarts at 1, every
\* stored cell and row generation is 0, everything reads as absent, and no cell
\* of an earlier generation is reported present after a wraparound.
WraparoundReset ==
    /\ (last.op = "beginFrame" /\ last.wrapped) =>
          /\ back.gen = 1
          /\ \A i \in CellIndexes(back) : back.cells[i].gen = 0
          /\ \A y \in 0..(back.height - 1) : back.rowGen[y] = 0 /\ ~rowSpan(back, y).ok
          /\ \A i \in CellIndexes(back) : ~cellAt(back, ColOf(back, i), RowOf(back, i)).ok
    /\ epoch >= GenMod =>
          \A i \in CellIndexes(back) :
              WrittenOnlyEarlier(i) => ~cellAt(back, ColOf(back, i), RowOf(back, i)).ok

\* The counter has just wrapped to 1 and a cell was last written in the first
\* generation, which was numbered 1 too.
WraparoundResetWitness ==
    /\ last.op = "beginFrame" /\ last.wrapped
    /\ back.gen = 1
    /\ \E i \in CellIndexes(back) : wroteEpoch[i] = 1 /\ back.cells[i].text # ""

\* C8: within one generation every column reads as the most recent write whose
\* glyph span covered it; a column outside a write's span changes only when it
\* is the continuation of a wide lead which that write overwrites.
LastWriteWins ==
    \A i \in CellIndexes(back) : View(back, ColOf(back, i), RowOf(back, i)) = expect[i]

LastWriteInFrame == last.op = "write" /\ InFrame(back, last.x, last.y)

\* C9 as stated: after a write of width w >= 2 at a column that is not the last
\* one, the lead has displayWidth w and every column of [x+1, x+w) is a present
\* continuation cell pointing at x.
WideWriteContinuations ==
    (LastWriteInFrame /\ last.w >= 2 /\ last.x # back.width - 1) =>
        /\ LET r == cellAt(back, last.x, last.y)
           IN  r.ok /\ ~r.c.cont /\ r.c.dw = last.w
        /\ \A c \in (last.x + 1)..(last.x + last.w - 1) :
              LET r == cellAt(back, c, last.y)
              IN  r.ok /\ r.c.cont /\ r.c.leadX = last.x

\* C9 amended: the same for the columns of [x+1, x+w) that lie inside the row.
WideWriteContinuationsInRow ==
    (LastWriteInFrame /\ last.w >= 2 /\ last.x # back.width - 1) =>
        /\ LET r == cellAt(back, last.x, last.y)
           IN  r.ok /\ ~r.c.cont /\ r.c.dw = last.w
        /\ \A c \in (last.x + 1)..(last.x + last.w - 1) :
              c < back.width =>
                  LET r == cellAt(back, c, last.y)
                  IN  r.ok /\ r.c.cont /\ r.c.leadX = last.x

\* A width-3 glyph was written so that its last column falls off the row.
WideWriteContinuationsWitness ==
    /\ LastWriteInFrame /\ last.w = 3 /\ last.x = back.width - 2
    /\ cellAt(back, last.x + 1, last.y).ok
    /\ cellAt(back, last.x + 1, last.y).c.cont

\* C10: a narrow glyph written over the lead of a wide glyph leaves every
\* column of the old tail absent and inside the row's dirty span.
OverwriteClearsTail ==
    (LastWriteInFrame /\ last.w = 1 /\ last.prevDw > 1) =>
        \A c \in (last.x + 1)..(last.x + last.prevDw - 1) :
            c < back.width =>
                /\ ~cellAt(back, c, last.y).ok
                /\ rowSpan(back, last.y).ok
                /\ rowSpan(back, last.y).start <= c
                /\ c < rowSpan(back, last.y).end

\* A narrow glyph has replaced a wide lead whose tail had two columns in the row.
OverwriteClearsTailWitness ==
    /\ LastWriteInFrame /\ last.w = 1 /\ last.prevDw = 3
    /\ last.x + 2 < back.width
    /\ cellAt(back, last.x, last.y).ok
    /\ cellAt(back, last.x, last.y).c.dw = 1

\* The last step was a write whose glyph is wider than one column and whose
\* target is the last column of a row of the frame.
WideWriteAtLastColumn ==
    /\ last.op = "write" /\ last.w > 1
    /\ last.x = back.width - 1 /\ InFrame(back, last.x, last.y)

\* C11: a glyph of display width > 1 written at the last column is stored as one
\* non-continuation space of display width 1 in the given style; no other cell
\* changes and the frame gets no cell beyond the row.
RightEdgeClipping ==
    [][WideWriteAtLastColumn' =>
          /\ View(back', last'.x, last'.y)
                = [ok |-> TRUE, text |-> " ", style |-> last'.style, dw |-> 1,
                   cont |-> FALSE, leadX |-> -1]
          /\ DOMAIN back'.cells = DOMAIN back.cells
          /\ \A j \in DOMAIN back.cells :
                j # last'.y * back.width + last'.x => back'.cells[j] = back.cells[j]]_vars

\* A wide glyph was clipped at the end of the first row of a frame of two rows,
\* where the column after the last one would be the first cell of the next row.
RightEdgeClippingWitness ==
    /\ WideWriteAtLastColumn
    /\ back.height > 1 /\ last.y = 0
    /\ View(back, last.x, last.y).text = " "
    /\ ~cellAt(back, 0, 1).ok

\* C12: a write whose target coordinate is outside the frame leaves the frame
\* unchanged.
OutOfBoundsWriteIgnored ==
    [][(last'.op = "write" /\ ~InFrame(back, last'.x, last'.y)) => back' = back]_vars

\* ------------------------------------------------------------------ blit claims

\* What a frame prescribes for the terminal at cell i: an absent cell is a
\* blank, and so is a continuation cell that no wide lead covers.
Visual(f, i) ==
    LET r == cellAt(f, ColOf(f, i), RowOf(f, i))
    IN  IF ~r.ok THEN BlankCell
        ELSE IF r.c.cont /\ ~isContinuationCoveredByLead(f, RowOf(f, i), ColOf(f, i))
        THEN BlankCell
        ELSE [text |-> r.c.text, style |-> r.c.style, dw |-> r.c.dw, cont |-> r.c.cont,
              leadX |-> r.c.leadX]

\* The terminal is cell-equal to the frame.
TermEquals(t, f) ==
    /\ f # NULL
    /\ t.width = f.width /\ t.height = f.height
    /\ \A i \in DOMAIN t.cells : t.cells[i] = Visual(f, i)

\* Both frames read the same at every position.
FramesCellIdentical(f, g) ==
    /\ f.width = g.width /\ f.height = g.height
    /\ \A i \in CellIndexes(f) :
          View(f, ColOf(f, i), RowOf(f, i)) = View(g, ColOf(g, i), RowOf(g, i))

\* The last step was a blit that was asked for the incremental mode.
IncrementalBlit ==
    /\ last.op = "draw"
    /\ last.front # NULL /\ last.back # NULL
    /\ ~last.force /\ ~last.back.clearAll

\* C1: after every draw pass the terminal is cell-equal to the frame just
\* rendered, so the front frame describes the terminal when an incremental
\* blit starts.
DrawPassLeavesTerminalEqual ==
    /\ last.op = "draw" => TermEquals(term, last.back)
    /\ (pc = "drawing" /\ ~dForce) => TermEquals(term, front)

\* C2: an incremental blit that starts with the terminal cell-equal to front
\* leaves it cell-equal to back.
IncrementalBlitCorrect ==
    (IncrementalBlit /\ TermEquals(last.before, last.front)) => TermEquals(term, last.back)

\* The columns of row y an operation covers on a terminal of the given width.
OpCols(o, width) ==
    IF o.op = "put"
    THEN {c \in 0..(width - 1) : c >= o.x /\ c < o.x + Max(1, StringWidth(o.str[1]))}
    ELSE {c \in 0..(width - 1) : c >= o.x /\ c < o.x + Len(o.str)}

\* The columns of the row's dirty span in frame f.
SpanSet(f, y) ==
    LET r == rowSpan(f, y)
    IN  IF r.ok THEN {c \in 0..(f.width - 1) : c >= r.start /\ c < r.end} ELSE {}

\* Smallest column range that contains both frames' dirty spans of row y.
SpanHull(f, g, y) ==
    LET u == SpanSet(f, y) \cup SpanSet(g, y)
    IN  {c \in 0..(f.width - 1) : \E a \in u : \E b \in u : a <= c /\ c <= b}

\* C3 as stated: an incremental blit writes no column outside the union of
\* front's and back's dirty spans of its row.
WritesInsideSpanUnion ==
    IncrementalBlit =>
        \A k \in 1..Len(last.ops) :
            /\ last.ops[k].op # "clear"
            /\ OpCols(last.ops[k], last.back.width)
                   \subseteq (SpanSet(last.front, last.ops[k].y)
                                 \cup SpanSet(last.back, last.ops[k].y))

\* C3 amended: no column outside the smallest range enclosing both spans is
\* written, and a row without a valid span in either frame gets no write.
WritesInsideSpanHull ==
    IncrementalBlit =>
        \A k \in 1..Len(last.ops) :
            /\ last.ops[k].op # "clear"
            /\ OpCols(last.ops[k], last.back.width)
                   \subseteq SpanHull(last.front, last.back, last.ops[k].y)

\* An incremental blit has written in one row and left alone another row that
\* has no dirty span in either frame.
WritesInsideSpanHullWitness ==
    /\ IncrementalBlit
    /\ Len(last.ops) > 0
    /\ last.back.height > 1
    /\ \E y \in 0..(last.back.height - 1) :
          /\ ~rowSpan(last.front, y).ok /\ ~rowSpan(last.back, y).ok
          /\ \A k \in 1..Len(last.ops) : last.ops[k].y # y

\* C4: front and back cell-for-cell identical: the incremental blit issues no
\* terminal operation and returns changed = false.
IdenticalFramesNoOps ==
    (IncrementalBlit /\ FramesCellIdentical(last.front, last.back)) =>
        last.ops = << >> /\ ~last.changed

\* Identical non-empty frames of different generations, with stale content
\* behind the back frame.
IdenticalFramesNoOpsWitness ==
    /\ IncrementalBlit /\ FramesCellIdentical(last.front, last.back)
    /\ last.front.gen # last.back.gen
    /\ \E i \in CellIndexes(last.back) :
          cellAt(last.back, ColOf(last.back, i), RowOf(last.back, i)).ok
    /\ last.ops = << >>

NoClearIn(writes) == \A k \in 1..Len(writes) : writes[k].text # "Clear"

\* C5: the second of two consecutive passes with identical widget output issues
\* no terminal operation and does not call Show; the first pass on a freshly
\* created frame pair runs in forced mode and performs the writes.
RepeatedPassIsNoOp ==
    /\ (last.op = "draw" /\ last.prev.known /\ ~last.script.disturbed
            /\ last.prev.writes = last.script.writes /\ NoClearIn(last.script.writes)) =>
          last.ops = << >> /\ ~last.changed /\ ~last.shown
    /\ (last.op = "draw" /\ last.script.fresh /\ NoClearIn(last.script.writes)) =>
          last.mode = "forced" /\ last.ops # << >> /\ last.changed /\ last.shown

\* The same non-empty output was drawn twice in a row and the second blit was silent.
RepeatedPassIsNoOpWitness ==
    /\ last.op = "draw" /\ last.prev.known
    /\ last.prev.writes = last.script.writes
    /\ Len(last.script.writes) > 0 /\ NoClearIn(last.script.writes)
    /\ last.ops = << >> /\ ~last.shown

\* The last step was a blit between two frames.
Blit == last.op = "draw" /\ last.front # NULL /\ last.back # NULL

\* The terminal is cleared by the first operation and by no other.
ClearsOnce(ops) ==
    /\ Len(ops) >= 1 /\ ops[1].op = "clear"
    /\ \A k \in 2..Len(ops) : ops[k].op # "clear"

\* Every write of ops after the first operation stays inside the dirty span
\* that frame f has for the row of the write.
WritesInsideOwnSpans(ops, f) ==
    \A k \in 2..Len(ops) :
        ops[k].op # "clear" => OpCols(ops[k], f.width) \subseteq SpanSet(f, ops[k].y)

\* Every column of every row of frame f is covered by a write of ops.
CoversEveryColumn(ops, f) ==
    \A y \in 0..(f.height - 1) : \A c \in 0..(f.width - 1) :
        \E k \in 2..Len(ops) :
            ops[k].op # "clear" /\ ops[k].y = y /\ c \in OpCols(ops[k], f.width)

\* Other front frames the same blit could have been given: an empty one, and
\* the back frame itself.
OtherFronts(f) == {beginFrame(newFrame(f.width, f.height)), f}

\* The operations of the last blit are the same for the other front frames.
FrontIgnored ==
    \A g \in OtherFronts(last.back) :
        blitDiff(last.before, g, last.back, last.force).ops = last.ops

\* C13: a back frame that was cleared in this draw pass is blitted by clearing
\* the terminal once and writing only inside each row's dirty span, whatever
\* front holds; afterwards the terminal is cell-equal to back.
FullClearMode ==
    (Blit /\ last.back.clearAll) =>
        /\ ClearsOnce(last.ops)
        /\ WritesInsideOwnSpans(last.ops, last.back)
        /\ FrontIgnored
        /\ last.changed
        /\ TermEquals(term, last.back)

\* A full-clear blit that wrote something, left a column of the written row
\* alone, and ignored a front frame that holds content.
FullClearModeWitness ==
    /\ Blit /\ last.back.clearAll
    /\ Len(last.ops) >= 2
    /\ ~CoversEveryColumn(last.ops, last.back)
    /\ \E i \in CellIndexes(last.front) :
          cellAt(last.front, ColOf(last.front, i), RowOf(last.front, i)).ok

\* C14: a forced blit of a back frame that was not cleared clears the terminal,
\* covers every column of every row, returns true, issues the same operations
\* whatever front holds, and leaves the terminal cell-equal to back.
ForcedMode ==
    (Blit /\ ~last.back.clearAll /\ last.force) =>
        /\ ClearsOnce(last.ops)
        /\ CoversEveryColumn(last.ops, last.back)
        /\ FrontIgnored
        /\ last.changed
        /\ TermEquals(term, last.back)

\* A forced blit over a front frame that holds content, of a back frame with
\* an absent cell and a wide glyph.
ForcedModeWitness ==
    /\ Blit /\ ~last.back.clearAll /\ last.force
    /\ \E i \in CellIndexes(last.front) :
          cellAt(last.front, ColOf(last.front, i), RowOf(last.front, i)).ok
    /\ \E i \in CellIndexes(last.back) :
          ~cellAt(last.back, ColOf(last.back, i), RowOf(last.back, i)).ok
    /\ \E i \in CellIndexes(last.back) :
          LiveWideDw(last.back, ColOf(last.back, i), RowOf(last.back, i)) > 1

\* C15: full clear goes before forced, forced before incremental, and one
\* mode runs per blit: a cleared back frame gets the span-limited repaint even
\* when forceRedraw is set, a forced blit of a frame that was not cleared
\* repaints everything, and any other blit does not clear the terminal.
BlitModePriority ==
    Blit =>
        /\ last.back.clearAll =>
              ClearsOnce(last.ops) /\ WritesInsideOwnSpans(last.ops, last.back)
        /\ (~last.back.clearAll /\ last.force) =>
              ClearsOnce(last.ops) /\ CoversEveryColumn(last.ops, last.back)
        /\ (~last.back.clearAll /\ ~last.force) =>
              \A k \in 1..Len(last.ops) : last.ops[k].op # "clear"

\* Both the full-clear flag and forceRedraw were set, and the blit did not
\* repaint every column.
BlitModePriorityWitness ==
    /\ Blit /\ last.back.clearAll /\ last.force
    /\ ClearsOnce(last.ops)
    /\ ~CoversEveryColumn(last.ops, last.back)

\* Back holds at (c, y) a present cell of width 1 in the given style that
\* differs from the front cell.
NarrowChanged(fr, bk, y, c, style) ==
    LET b == cellAt(bk, c, y)
        f == cellAt(fr, c, y)
    IN  /\ b.ok /\ b.c.dw = 1 /\ b.c.style = style
        /\ ~cellsEqual(f.c, f.ok, b.c, b.ok)

\* The columns c..d of row y are a maximal run of such cells.
MaximalNarrowRun(fr, bk, y, c, d, style) ==
    /\ \A e \in c..d : NarrowChanged(fr, bk, y, e, style)
    /\ ~NarrowChanged(fr, bk, y, c - 1, style)
    /\ ~NarrowChanged(fr, bk, y, d + 1, style)

\* The styled string write of the cells c..d of row y of back.
RunWrite(bk, y, c, d, style) ==
    [op |-> "putstr", x |-> c, y |-> y, style |-> style,
     str |-> [i \in 1..(d - c + 1) |-> cellAt(bk, c + i - 1, y).c.text]]

\* The positions in ops of the operations that start inside the columns c..d of row y.
StartsIn(ops, y, c, d) ==
    {k \in 1..Len(ops) : ops[k].op # "clear" /\ ops[k].y = y /\ ops[k].x >= c /\ ops[k].x <= d}

BothAbsent(fr, bk, y, c) == ~cellAt(fr, c, y).ok /\ ~cellAt(bk, c, y).ok

\* C17 as stated: an incremental blit issues no write that covers a column at
\* which both front and back are absent.
BothAbsentNeverWritten ==
    IncrementalBlit =>
        \A k \in 1..Len(last.ops) :
            last.ops[k].op # "clear" =>
                \A c \in OpCols(last.ops[k], last.back.width) :
                    ~BothAbsent(last.front, last.back, last.ops[k].y, c)

\* C17 amended: no write starts at a column where both frames are absent; a
\* write that covers such a column is the blank fill of a clear run, which
\* starts at a column present in front and absent in back and writes blanks in
\* the default style, or the Put of a wide glyph that starts at a lead of back.
BothAbsentOnlyBlankFilled ==
    IncrementalBlit =>
        \A k \in 1..Len(last.ops) :
            LET o == last.ops[k]
            IN  (o.op # "clear"
                    /\ \E c \in OpCols(o, last.back.width) :
                          BothAbsent(last.front, last.back, o.y, c)) =>
                    /\ ~BothAbsent(last.front, last.back, o.y, o.x)
                    /\ \/ /\ o.op = "putstr"
                          /\ o.style = StyleDefault
                          /\ \A i \in 1..Len(o.str) : o.str[i] = " "
                          /\ cellAt(last.front, o.x, o.y).ok
                          /\ ~cellAt(last.back, o.x, o.y).ok
                       \/ /\ o.op = "put"
                          /\ LiveWideDw(last.back, o.x, o.y) > 1

\* The blank fill of a clear run has covered a column absent in both frames.
BothAbsentOnlyBlankFilledWitness ==
    /\ IncrementalBlit
    /\ \E k \in 1..Len(last.ops) :
          /\ last.ops[k].op = "putstr"
          /\ ~cellAt(last.back, last.ops[k].x, last.ops[k].y).ok
          /\ \E c \in OpCols(last.ops[k], last.back.width) :
                BothAbsent(last.front, last.back, last.ops[k].y, c)

\* The blit walk of the last blit visits column c of row y.
Visited(y, c) ==
    CASE last.back.clearAll -> c \in SpanSet(last.back, y)
      [] last.force -> TRUE
      [] OTHER ->
           LET r == candidateRange(last.front, last.back, y)
           IN  /\ r.ok /\ r.start <= c /\ c < r.end
               /\ rowRangeSignature(last.front, y, r.start, r.end)
                     # rowRangeSignature(last.back, y, r.start, r.end)

\* The lead of the continuation cell at (c, y) of f is valid: present,
\* non-continuation, wider than one column, and c lies in its tail.
LeadValid(f, y, c) ==
    LET lx == cellAt(f, c, y).c.leadX
        lead == cellAt(f, lx, y)
    IN  lead.ok /\ ~lead.c.cont /\ lead.c.dw > 1 /\ lx < c /\ c < lx + lead.c.dw

\* C18: at a present continuation cell of back that the blit walk visits, no
\* write starts when the lead is valid; otherwise exactly one write starts
\* there, a single blank in the default style. In all three modes.
ContinuationCells ==
    Blit =>
        \A y \in 0..(last.back.height - 1) : \A c \in 0..(last.back.width - 1) :
            (cellAt(last.back, c, y).ok /\ cellAt(last.back, c, y).c.cont /\ Visited(y, c)) =>
                IF LeadValid(last.back, y, c)
                THEN StartsIn(last.ops, y, c, c) = {}
                ELSE /\ Cardinality(StartsIn(last.ops, y, c, c)) = 1
                     /\ \A k \in StartsIn(last.ops, y, c, c) :
                           last.ops[k] = [op |-> "putstr", x |-> c, y |-> y,
                                          style |-> StyleDefault, str |-> << " " >>]

\* An incremental blit has met a continuation cell whose lead is gone and one
\* whose lead is valid.
ContinuationCellsWitness ==
    /\ IncrementalBlit
    /\ \E y \in 0..(last.back.height - 1) : \E c \in 0..(last.back.width - 1) :
          /\ cellAt(last.back, c, y).ok /\ cellAt(last.back, c, y).c.cont /\ Visited(y, c)
          /\ ~LeadValid(last.back, y, c)
          /\ StartsIn(last.ops, y, c, c) # {}

\* C19: an operation issued through the clipping surface changes no cell of the
\* underlying frame outside the surface's viewport.
ClippedWritesStayInside ==
    last.op = "clipped" =>
        \A i \in CellIndexes(back) :
            ~inBounds(clip, ColOf(back, i), RowOf(back, i)) =>
                back.cells[i] = last.before.cells[i]

\* The index of the last Clear in the widget output of a pass, 0 if there is none.
LastClear(writes) ==
    LET ks == {k \in 1..Len(writes) : writes[k].text = "Clear"}
    IN  IF ks = {} THEN 0 ELSE CHOOSE k \in ks : \A j \in ks : j <= k

\* The frame f after the writes k.. of the widget output.
RECURSIVE Replay(_, _, _)
Replay(f, writes, k) ==
    IF k > Len(writes) THEN f
    ELSE Replay(SetContent(f, writes[k].x, writes[k].y, writes[k].text, writes[k].style),
                writes, k + 1)

\* Frames f and g read the same at every cell and have the same row spans.
ReadsLike(f, g) ==
    /\ \A i \in CellIndexes(f) :
          View(f, ColOf(f, i), RowOf(f, i)) = View(g, ColOf(f, i), RowOf(f, i))
    /\ \A y \in 0..(f.height - 1) : rowSpan(f, y) = rowSpan(g, y)

\* The frame a pass from writes would have produced had nothing been written
\* before its last Clear.
AfterLastClear(f, writes) ==
    Replay(beginFrame(newFrame(f.width, f.height)), writes, LastClear(writes) + 1)

\* C20: Clear() discards everything written earlier in the draw pass: the back
\* frame reads, cell by cell and span by span, as if only the writes after the
\* last Clear() had been made (right after a Clear() everything reads absent);
\* the full-clear flag is true exactly when a Clear() was called since the
\* beginFrame() of the pass, so the flag a blit sees is true iff the widget
\* tree called Clear() during that very pass.
ClearDiscardsAndFlags ==
    /\ pc = "drawing" =>
          /\ back.clearAll <=> ~NoClearIn(script.writes)
          /\ ~NoClearIn(script.writes) => ReadsLike(back, AfterLastClear(back, script.writes))
    /\ last.op = "draw" =>
          /\ last.back.clearAll <=> ~NoClearIn(last.script.writes)
          /\ (last.mode = "clear") = (~NoClearIn(last.script.writes))

\* A pass wrote a cell, called Clear() and wrote elsewhere: the first cell reads
\* absent and the blit saw the flag.
ClearDiscardsAndFlagsWitness ==
    /\ last.op = "draw" /\ last.back.clearAll
    /\ Len(last.script.writes) = 3 /\ LastClear(last.script.writes) = 2
    /\ \E x \in 0..(last.back.width - 1), y \in 0..(last.back.height - 1) :
          /\ x = last.script.writes[1].x /\ y = last.script.writes[1].y
          /\ << x, y >> # << last.script.writes[3].x, last.script.writes[3].y >>
          /\ ~cellAt(last.back, x, y).ok

\* A pass without Clear() on a back frame that carried the flag of an earlier
\* pass: the blit saw no flag.
StaleFlagResetWitness ==
    /\ pc = "drawing" /\ last.op = "drawBegin" /\ last.stale /\ ~back.clearAll

\* Columns of row y written in the current generation.
WrittenCols(y) == {c \in 0..(back.width - 1) : wroteEpoch[y * back.width + c] = epoch}

\* C21: for every row, the dirty span is valid iff a cell of the row was written
\* in the current generation; a valid span satisfies 0 <= start < end <= width
\* and is the smallest interval holding every written column; every present
\* cell of the row lies inside the span.
DirtySpanInvariant ==
    pc = "frame" =>
        \A y \in 0..(back.height - 1) :
            LET sp == rowSpan(back, y)
                cols == WrittenCols(y)
            IN  /\ sp.ok <=> cols # {}
                /\ sp.ok =>
                      /\ 0 <= sp.start /\ sp.start < sp.end /\ sp.end <= back.width
                      /\ sp.start \in cols /\ (sp.end - 1) \in cols
                      /\ \A c \in cols : sp.start <= c /\ c < sp.end
                /\ \A c \in 0..(back.width - 1) :
                      cellAt(back, c, y).ok => sp.ok /\ sp.start <= c /\ c < sp.end

\* In a later generation one row has a span again, with an unwritten column
\* inside it or a second row whose span of the earlier generation is invalid.
DirtySpanInvariantWitness ==
    /\ pc = "frame" /\ epoch > 1
    /\ \E y \in 0..(back.height - 1) :
          /\ rowSpan(back, y).ok
          /\ \E z \in 0..(back.height - 1) :
                z # y /\ ~rowSpan(back, z).ok /\ back.rowGen[z] # 0 /\ back.rowEnd[z] > 0

\* A span that is wider than any single write: two columns apart were written
\* and the column between them was not.
DirtySpanGapWitness ==
    /\ pc = "frame"
    /\ rowSpan(back, 0).ok /\ rowSpan(back, 0).end - rowSpan(back, 0).start = 3
    /\ 1 \notin WrittenCols(0)

\* C22: resize(w, h) with the dimensions the frame already has (negative ones
\* counted as 0) leaves the frame as it is: cells, generation, row spans and
\* full-clear flag; with other dimensions the grid has w*h zero cells and h row
\* entries, the generation is 0 and the full-clear flag is off.
ResizeEffect ==
    last.op = "resize" =>
        LET w == IF last.width < 0 THEN 0 ELSE last.width
            h == IF last.height < 0 THEN 0 ELSE last.height
        IN  IF last.before.width = w /\ last.before.height = h
            THEN back = last.before
            ELSE /\ back.width = w /\ back.height = h
                 /\ DOMAIN back.cells = 0..(w * h - 1)
                 /\ \A i \in DOMAIN back.cells : back.cells[i] = ZeroCell
                 /\ DOMAIN back.rowGen = 0..(h - 1)
                 /\ DOMAIN back.rowStart = 0..(h - 1)
                 /\ DOMAIN back.rowEnd = 0..(h - 1)
                 /\ back.gen = 0 /\ ~back.clearAll

\* A frame with the full-clear flag set and a written cell was resized to
\* other dimensions, one of them given as negative.
ResizeEffectWitness ==
    /\ last.op = "resize"
    /\ last.before.clearAll /\ last.before.gen > 1
    /\ \E i \in DOMAIN last.before.cells : last.before.cells[i].gen = last.before.gen
    /\ (last.width < 0 \/ last.height < 0)
    /\ back.gen = 0 /\ ~back.clearAll

\* A frame with the full-clear flag set and a written cell was resized to the
\* dimensions it has and kept both.
ResizeNoOpWitness ==
    /\ last.op = "resize"
    /\ last.before.width = last.width /\ last.before.height = last.height
    /\ back.clearAll /\ back.gen > 1
    /\ \E i \in DOMAIN back.cells : back.cells[i].gen = back.gen

\* The last step wrote, through SetContent or Put, a cluster of measured width
\* zero at a coordinate of the frame.
ZeroWidthWrite == last.op = "write" /\ StringWidth(last.text) <= 0
                      /\ InFrame(back, last.x, last.y)

\* The target of the last write holds the cluster as a present lead of width 1.
StoredAsWidthOne ==
    LET r == cellAt(back, last.x, last.y)
    IN  r.ok /\ ~r.c.cont /\ r.c.dw = 1 /\ r.c.text = last.text /\ r.c.style = last.style

\* C23: a written cluster of measured width zero is forced to width 1: the
\* target cell becomes a present, non-continuation cell of display width 1 that
\* holds the cluster, and no other cell is written (a cell that changes is the
\* reset tail of an overwritten wide lead).
ZeroWidthForcedToOne ==
    [][ZeroWidthWrite' =>
          /\ StoredAsWidthOne'
          /\ \A i \in CellIndexes(back) :
                (i # last'.y * back.width + last'.x /\ back'.cells[i] # back.cells[i]) =>
                    back'.cells[i] = ZeroCell]_vars

\* The same for SetContent alone.
ZeroWidthSetContentForcedToOne ==
    [][(ZeroWidthWrite' /\ last'.api = "SetContent") =>
          /\ StoredAsWidthOne'
          /\ \A i \in CellIndexes(back) :
                (i # last'.y * back.width + last'.x /\ back'.cells[i] # back.cells[i]) =>
                    back'.cells[i] = ZeroCell]_vars

\* SetContent stored a zero-width cluster over a live wide lead.
ZeroWidthSetContentWitness ==
    /\ ZeroWidthWrite /\ last.api = "SetContent" /\ last.prevDw > 1 /\ StoredAsWidthOne

\* C24: blitDiff returns true iff it issued at least one terminal operation, and
\* draw() calls Show iff blitDiff returned true; an incremental blit that
\* writes nothing returns false and no Show happens.
BlitReportsChange ==
    (last.op = "draw" /\ ~last.hang) =>
        /\ last.changed <=> last.ops # << >>
        /\ last.shown <=> last.changed
        /\ (last.mode = "incremental" /\ last.ops = << >>) => ~last.changed /\ ~last.shown
        /\ last.mode # "incremental" => last.changed /\ last.shown

\* An incremental blit found dirty rows, wrote nothing and no Show happened.
BlitReportsChangeWitness ==
    /\ Blit /\ last.mode = "incremental" /\ last.ops = << >>
    /\ ~last.changed /\ ~last.shown
    /\ \E y \in 0..(last.back.height - 1) : rowSpan(last.back, y).ok

\* An incremental blit wrote to the terminal, without clearing it, and Show
\* happened.
BlitReportsChangeWroteWitness ==
    /\ Blit /\ last.mode = "incremental" /\ last.ops # << >>
    /\ \A k \in 1..Len(last.ops) : last.ops[k].op # "clear"
    /\ last.changed /\ last.shown

\* C25: the forced-redraw request is one-shot: a completed draw pass runs with
\* the force flag (forced mode, or full-clear mode if the pass called Clear())
\* exactly when, since the previous pass began, the frame pair was created, the
\* terminal changed its size, or Sync() or SetRoot() was called; otherwise it
\* runs without the flag (incremental mode, or full-clear mode).
ForceIsOneShot ==
    last.op = "draw" =>
        /\ last.force <=> last.script.requested
        /\ last.force => last.mode \in {"forced", "clear"}
        /\ ~last.force => last.mode \in {"incremental", "clear"}

\* The half of C25 that says a request does not outlive the pass that honoured it.
ForceNeverPersists ==
    last.op = "draw" =>
        /\ last.force => last.script.requested
        /\ last.force => last.mode \in {"forced", "clear"}
        /\ ~last.force => last.mode \in {"incremental", "clear"}

\* A pass without the force flag directly after a pass that had it.
ForceNeverPersistsWitness ==
    /\ last.op = "draw" /\ ~last.force /\ last.mode = "incremental"
    /\ last.prev.known /\ passes = 2

\* ------------------------------------------------------------------ event-loop claims

\* The queued updates whose function is running.
InProgress == {id \in UpdateIds : started[id] > finished[id]}

\* C26: functions queued by any number of goroutines run one at a time on the
\* event loop, never while the loop runs an event handler or a draw pass of
\* its own; every queued update runs at most once, and QueueUpdate returns
\* only after its function has run exactly once and has finished.
QueuedUpdatesSerialized ==
    pc = "queue" =>
        /\ Cardinality(InProgress) <= 1
        /\ \A id \in UpdateIds : started[id] <= 1 /\ finished[id] <= started[id]
        /\ \A id \in InProgress :
              /\ goroutine[EventLoop].cur # NULL
              /\ goroutine[EventLoop].cur.id = id
              /\ goroutine[EventLoop].act = "f"
        /\ goroutine[EventLoop].act \in {"handler", "draw"} => InProgress = {}
        /\ \A id \in returned : started[id] = 1 /\ finished[id] = 1
        /\ \A t \in Goroutines :
              goroutine[t].pc \in {"send", "wait"} => goroutine[t].u.id \notin returned

\* Two goroutines are inside QueueUpdate while the loop runs the function of
\* one of them: one goroutine waits for completion, the other for room in the
\* channel, and an earlier update has already returned.
QueuedUpdatesSerializedWitness ==
    /\ pc = "queue"
    /\ InProgress # {} /\ returned # {}
    /\ \E g, h \in Goroutines :
          /\ g # h
          /\ goroutine[g].pc = "wait" /\ goroutine[g].u.id \in InProgress
          /\ goroutine[h].pc = "send" /\ Len(updates) = queueSize

\* The event loop is inside a QueueUpdate call of its own (Application.Draw()
\* called by an event handler or by a queued function).
LoopBlocked == pc = "queue" /\ goroutine[EventLoop].pc \in {"send", "wait"}

\* What the event loop has processed so far.
Processed == << handledEvents, started, finished, returned >>

OtherGoroutineReturnsWitness ==
    /\ pc = "queue" /\ ~LoopBlocked
    /\ \E t \in Goroutines : {<< t, 1 >>, << t, 2 >>} \subseteq returned

\* ------------------------------------------------------------------ pages claims

\* C28: after SwitchToPage(pg), page pg is visible and every other page is not.
SwitchToPageShowsOnlyOne ==
    last.op = "SwitchToPage" =>
        \A i \in 1..Len(pages) : pages[i].visible <=> (i = last.pg + 1)

\* The half of C28 that the code keeps: page pg is visible afterwards.
SwitchToPageShowsPage ==
    last.op = "SwitchToPage" => GetVisible(pages, last.pg)

\* The pages that remain when page pg is taken out of ps, in their order.
Without(ps, pg) == SubSeq(ps, 1, pg) \o SubSeq(ps, pg + 2, Len(ps))

\* C29: RemovePage(pg) of an existing page, the last one included, does not
\* fail and leaves the other pages in their order with their visibility,
\* except that the last remaining page becomes visible if the removed page
\* was the only visible one.
RemovePageKeepsOthers ==
    last.op = "RemovePage" =>
        LET rest == Without(last.before, last.pg)
            onlyVisible ==
                /\ last.before[last.pg + 1].visible
                /\ \A i \in 1..Len(rest) : ~rest[i].visible
        IN  /\ ~last.panic
            /\ pages = IF onlyVisible /\ rest # << >>
                       THEN [rest EXCEPT ![Len(rest)].visible = TRUE]
                       ELSE rest

\* What the code keeps of C29: a page that is not the last one is removed and
\* the others keep order and visibility.
RemovePageNotLast ==
    (last.op = "RemovePage" /\ last.pg < Len(last.before) - 1) =>
        ~last.panic /\ pages = Without(last.before, last.pg)

\* The front-most layer of ls that is visible and enabled, 0 if there is none.
FrontMostEnabled(ls) ==
    IF \E i \in 1..Len(ls) : ls[i].visible /\ ls[i].enabled
    THEN CHOOSE i \in 1..Len(ls) :
            /\ ls[i].visible /\ ls[i].enabled
            /\ \A j \in (i + 1)..Len(ls) : ~(ls[j].visible /\ ls[j].enabled)
    ELSE 0

\* The front-most layer of ls that is a visible, enabled overlay, 0 if none.
ActiveOverlay(ls) ==
    IF \E i \in 1..Len(ls) : ls[i].visible /\ ls[i].enabled /\ ls[i].overlay
    THEN CHOOSE i \in 1..Len(ls) :
            /\ ls[i].visible /\ ls[i].enabled /\ ls[i].overlay
            /\ \A j \in (i + 1)..Len(ls) :
                   ~(ls[j].visible /\ ls[j].enabled /\ ls[j].overlay)
    ELSE 0

\* No layer that was disabled when a key, paste or mouse event arrived at the
\* container had the event passed to its item.
DisabledGetsNoEvent ==
    last.op \in { "mouse", "key", "paste" } =>
        \A i \in 1..Len(last.before) :
            last.before[i].name \in last.recipients => last.before[i].enabled

\* When Layers.Focus delegates, it delegates to the front-most visible
\* enabled layer, and to the container's own box if there is none.
FocusToFrontMostEnabled ==
    layers.delegated # "none" =>
        LET top == FrontMostEnabled(layers.layers)
        IN  IF top = 0 THEN layers.delegated = "box" /\ layers.hasFocus
            ELSE /\ layers.delegated = layers.layers[top].name
                 /\ layers.layers[top].itemFocus

\* While a visible, enabled overlay exists no layer behind it gets a mouse
\* event.
OverlayShieldsLayersBehind ==
    (last.op = "mouse" /\ ActiveOverlay(last.before) # 0) =>
        \A i \in 1..(ActiveOverlay(last.before) - 1) :
            last.before[i].name \notin last.recipients

\* C30 as stated: a disabled layer never receives key, paste or mouse events
\* from the container and is never chosen as focus delegate (focus goes to
\* the front-most visible enabled layer, else to the container's box); while
\* a visible, enabled overlay exists, mouse events never reach a layer behind
\* it and every mouse event is reported as consumed.
LayersInputRouting ==
    pc = "layers" =>
        /\ DisabledGetsNoEvent
        /\ FocusToFrontMostEnabled
        /\ OverlayShieldsLayersBehind
        /\ (last.op = "mouse" /\ ActiveOverlay(last.before) # 0) => last.consumed

\* C30 as the code keeps it: the same, with the report "consumed" promised
\* only for mouse events inside the container's rectangle; an event outside
\* of it reaches no layer and is reported as not consumed.
LayersInputRoutingInRect ==
    pc = "layers" =>
        /\ DisabledGetsNoEvent
        /\ FocusToFrontMostEnabled
        /\ OverlayShieldsLayersBehind
        /\ (last.op = "mouse" /\ ActiveOverlay(last.before) # 0) =>
               (last.consumed = last.inRect)
        /\ (last.op = "mouse" /\ ~last.inRect) => last.recipients = {}

\* A click inside the container that hits only the layer behind the active
\* overlay: the overlay's item was asked, the layer behind was not, and the
\* event is reported as consumed.
LayersInputRoutingInRectWitness ==
    /\ pc = "layers" /\ last.op = "mouse" /\ last.inRect
    /\ Len(last.before) = 2
    /\ last.before[2].visible /\ last.before[2].enabled /\ last.before[2].overlay
    /\ last.before[1].visible /\ last.before[1].enabled
    /\ last.hits = { last.before[1].name }
    /\ last.recipients = { last.before[2].name }
    /\ last.consumed

\* Focus passes over a visible but disabled front layer to the layer behind.
DisabledFrontSkippedWitness ==
    /\ pc = "layers" /\ Len(layers.layers) = 2
    /\ layers.layers[2].visible /\ ~layers.layers[2].enabled
    /\ layers.delegated = layers.layers[1].name

\* Focus falls back to the container's box when every layer is disabled.
FocusFallsToBoxWitness ==
    /\ pc = "layers" /\ Len(layers.layers) = 2
    /\ layers.layers[1].visible /\ layers.layers[2].visible
    /\ layers.delegated = "box"

\* A key arrives while the item of a disabled layer holds the focus flag: the
\* item does not get it.
DisabledFocusedGetsNoKeyWitness ==
    /\ pc = "layers" /\ last.op = "key"
    /\ \E i \in 1..Len(last.before) :
           /\ ~last.before[i].enabled /\ last.before[i].itemFocus
           /\ last.before[i].name \notin last.recipients

\* A mouse event outside the container's rectangle while an overlay is
\* active: reported as not consumed.
OutsideRectNotConsumedWitness ==
    /\ pc = "layers" /\ last.op = "mouse" /\ ~last.inRect
    /\ ActiveOverlay(last.before) # 0 /\ ~last.consumed

\* A present continuation cell of back whose lead is not valid.
Orphans ==
    { << c, y >> \in (0..(back.width - 1)) \X (0..(back.height - 1)) :
        cellAt(back, c, y).ok /\ cellAt(back, c, y).c.cont /\ ~LeadValid(back, y, c) }

\* C31: after any sequence of in-bounds SetContent/Put writes within one
\* generation every present continuation cell is covered by a valid lead
\* (present, non-continuation, displayWidth > 1, span covering the column).
NoOrphanContinuation ==
    (pc = "frame" /\ InBoundsSoFar) => Orphans = {}

\* What the code keeps of C31: directly after an in-bounds write of a wide
\* glyph, the continuation cells of that glyph are covered by its lead.
FreshContinuationsCovered ==
    (pc = "frame" /\ last.op = "write" /\ InFrame(back, last.x, last.y)) =>
        \A c \in SpanCols(back, last.x + 1, LiveWideDw(back, last.x, last.y) - 1) :
            << c, last.y >> \notin Orphans

\* C32: within one generation every present wide lead at column x has, at
\* every column of [x+1, min(x+w, width)), a present continuation cell whose
\* leadColumn is x.
WideLeadsHaveTails ==
    pc = "frame" =>
        \A y \in 0..(back.height - 1) : \A x \in 0..(back.width - 1) :
            \A c \in SpanCols(back, x + 1, LiveWideDw(back, x, y) - 1) :
                LET r == cellAt(back, c, y)
                IN  r.ok /\ r.c.cont /\ r.c.leadX = x

\* C33: blitDiff and paintBackRowRangeNoCompare terminate on every pair of
\* frames the write interface can produce: no loop of a row walk stops
\* advancing, so no string write is empty and a row of the blit issues at most
\* as many writes as it has columns.
BlitTerminates ==
    Blit =>
        /\ ~last.hang
        /\ \A k \in 1..Len(last.ops) :
               last.ops[k].op = "putstr" => Len(last.ops[k].str) >= 1
        /\ \A y \in 0..(last.back.height - 1) :
               Cardinality(StartsIn(last.ops, y, 0, last.back.width - 1)) <= last.back.width

\* An incremental blit whose walk ran both inner loops: a blank run and a
\* narrow run of two columns each were written.
BlitTerminatesWitness ==
    /\ IncrementalBlit /\ ~last.hang
    /\ \E k \in 1..Len(last.ops) :
          /\ last.ops[k].op = "putstr" /\ Len(last.ops[k].str) = 2
          /\ last.ops[k].str[1] # " "
    /\ \E k \in 1..Len(last.ops) :
          /\ last.ops[k].op = "putstr" /\ Len(last.ops[k].str) = 2
          /\ last.ops[k].str[1] = " "

\* A forced repaint whose row walk wrote a narrow run and a wide glyph.
PaintTerminatesWitness ==
    /\ Blit /\ last.mode = "forced" /\ ~last.hang
    /\ \E k \in 1..Len(last.ops) : last.ops[k].op = "put"
    /\ \E k \in 1..Len(last.ops) :
          last.ops[k].op = "putstr" /\ last.ops[k].str[1] # " "

\* The grid of f has exactly width * height cells, and one span per row.
GridMatchesSize(f) ==
    /\ DOMAIN f.cells = 0..(f.width * f.height - 1)
    /\ DOMAIN f.rowGen = 0..(f.height - 1)

\* C34: at every blitDiff that draw() invokes, front and back are non-nil
\* frames of the same width and height whose generations are at least 1, and
\* the cached string of blanks is at least width long, so that no row slice,
\* cell index or slice of blanks of the blit is out of range.
BlitFramesWellFormed ==
    last.op = "draw" =>
        /\ last.front # NULL /\ last.back # NULL
        /\ last.front.width = last.back.width /\ last.front.height = last.back.height
        /\ GridMatchesSize(last.front) /\ GridMatchesSize(last.back)
        /\ last.front.gen >= 1 /\ last.back.gen >= 1
        /\ last.spaces >= last.back.width
        /\ \A k \in 1..Len(last.ops) :
               last.ops[k].op = "putstr" =>
                   /\ Len(last.ops[k].str) <= last.spaces
                   /\ last.ops[k].x >= 0
                   /\ last.ops[k].x + Len(last.ops[k].str) <= last.back.width

\* A blit on frames that the pass had to resize to a wider terminal, with a
\* run of blanks as long as the new width.
BlitFramesWellFormedWitness ==
    /\ last.op = "draw" /\ last.front # NULL /\ last.back # NULL
    /\ ~last.script.fresh /\ last.back.width = 3 /\ last.spaces = 3 /\ passes >= 2
    /\ \E k \in 1..Len(last.ops) :
          last.ops[k].op = "putstr" /\ Len(last.ops[k].str) = 3 /\ last.ops[k].str[1] = " "

\* A blit on frames of width 0, with the cache of blanks emptied.
ZeroWidthBlitWitness ==
    /\ last.op = "draw" /\ last.front # NULL /\ last.back # NULL
    /\ last.back.width = 0 /\ last.spaces = 0 /\ passes >= 2

\* A blit of a pass during which SetRoot dropped the application's frames.
BlitAfterSetRootWitness ==
    /\ last.op = "draw" /\ last.script.disturbed /\ last.front # NULL

\* No cell of f reads as present and no row of f has a valid span.
HoldsNoContent(f) ==
    /\ \A y \in 0..(f.height - 1) : \A x \in 0..(f.width - 1) : ~cellAt(f, x, y).ok
    /\ \A y \in 0..(f.height - 1) : ~rowSpan(f, y).ok

\* C35 as stated: immediately after a dimension-changing resize (the grid of
\* newFrame), before any write, cellAt reports every cell as absent and
\* rowSpan reports every row as invalid.
FreshFrameHoldsNoContent ==
    (pc = "resize" /\ last.op = "resize" /\ back # last.before) => HoldsNoContent(back)

\* C35 as the code keeps it: the grid of newFrame reads as empty once
\* beginFrame has been called on it, which ensureDiffFrames does for both
\* frames; before that call the generation 0 of the frame equals the
\* generation 0 of its zeroed cells and rows, so every cell reads as a present
\* zero cell and every row as the valid empty span [0, 0).
FreshFrameEmptyAfterBeginFrame ==
    /\ (pc = "resize" /\ last.op = "beginFrame" /\ last.fresh) =>
           back.gen = 1 /\ HoldsNoContent(back)
    /\ (pc = "resize" /\ last.op = "resize" /\ back # last.before) =>
           /\ \A y \in 0..(back.height - 1) : \A x \in 0..(back.width - 1) :
                  cellAt(back, x, y) = [c |-> ZeroCell, ok |-> TRUE]
           /\ \A y \in 0..(back.height - 1) :
                  rowSpan(back, y) = [start |-> 0, end |-> 0, ok |-> TRUE]

\* beginFrame on a frame that a resize has just reallocated with cells in it.
FreshFrameEmptyAfterBeginFrameWitness ==
    /\ pc = "resize" /\ last.op = "beginFrame" /\ last.fresh
    /\ back.width * back.height >= 2
    /\ ~cellAt(back, 0, 0).ok

\* The reallocated frame before beginFrame: a cell that reads as present.
FreshFrameReadsPresentWitness ==
    /\ pc = "resize" /\ last.op = "resize" /\ back # last.before
    /\ back.width * back.height >= 2
    /\ cellAt(back, 0, 0).ok

\* C36, first part: a key event that arrives while pasting calls nothing (no
\* input capture, no Stop, no input handler, no draw), leaves the loop
\* pasting, and appends the rune's text, a newline for Enter, a tab for Tab
\* and nothing for any other key.
PasteKeysOnlyAccumulate ==
    (last.op = "key" /\ last.before.pasting) =>
        /\ last.calls = << >> /\ pc = "paste" /\ paste.pasting
        /\ paste.pasteBuffer =
               last.before.pasteBuffer \o
                   (IF last.key = "KeyRune" THEN << "x" >>
                    ELSE IF last.key = "KeyEnter" THEN << "\n" >>
                    ELSE IF last.key = "KeyTab" THEN << "\t" >>
                    ELSE << >>)

\* C36, second part: paste-end delivers the accumulated text to the root's
\* paste handler once and then draws, if the text is non-empty and the root
\* has focus, and calls nothing otherwise; it ends the pasting.
PasteEndDelivers ==
    last.op = "pasteEnd" =>
        /\ ~paste.pasting
        /\ last.calls =
               IF last.before.root /\ last.before.hasFocus
                  /\ last.before.pasteBuffer # << >>
               THEN << [paste |-> last.before.pasteBuffer], "draw" >>
               ELSE << >>

\* C36, third part: paste-start empties the buffer and starts the pasting.
PasteStartResets ==
    last.op = "pasteStart" =>
        paste.pasting /\ paste.pasteBuffer = << >> /\ last.calls = << >>

PasteSwallowsCtrlCWitness ==
    /\ pc = "paste" /\ last.op = "key" /\ last.before.pasting /\ last.key = "KeyCtrlC"
    /\ last.capture = "same"

\* A second paste-start inside a paste drops what was accumulated.
PasteRestartWitness ==
    /\ pc = "paste" /\ last.op = "pasteStart" /\ last.before.pasting
    /\ last.before.pasteBuffer # << >>

\* A paste-end with no paste open delivers the text of the previous paste
\* again.
StrayPasteEndWitness ==
    /\ pc = "paste" /\ last.op = "pasteEnd" /\ ~last.before.pasting
    /\ last.calls # << >>

\* The buttons released by the last mouse event, the position of an action
\* among the calls of fire, and the click and double-click actions.
ReleasedButtons ==
    { b \in { MouseButtons[1], MouseButtons[2] } :
          b \in last.before.lastMouseButtons /\ b \notin last.ev.buttons }

CallIndex(action) ==
    { i \in 1..Len(last.calls) : last.calls[i].action = action }

ClickCalls(b) ==
    { i \in 1..Len(last.calls) :
          last.calls[i].action \in { ButtonActions[b].click, ButtonActions[b].dclick } }

AllClickCalls == ClickCalls(MouseButtons[1]) \cup ClickCalls(MouseButtons[2])

\* The event was nil after the i-th call of fire.
SwallowedBy(i) == last.swallowAt > 0 /\ i >= last.swallowAt

\* C37: a released button fires its up action once; if the release is at the
\* position of the last press and the mouse capture has not swallowed the
\* event, the up action is followed by exactly one of click and double
\* click: for the first released button click iff more than
\* DoubleClickInterval has passed since the recorded click; a click records
\* the time, a double click resets the record.  If the mouse moved since the
\* press or the event was swallowed, neither is fired.  Nothing else fires
\* a click or a double click.
ClickDerivation ==
    (pc = "mouse" /\ last.op = "mouse") =>
        /\ \A b \in ReleasedButtons :
              \E i \in CallIndex(ButtonActions[b].up) :
                  /\ CallIndex(ButtonActions[b].up) = { i }
                  /\ IF last.ev.pos = last.before.mouseDown /\ ~SwallowedBy(i)
                     THEN ClickCalls(b) = { i + 1 }
                     ELSE ClickCalls(b) = {}
        /\ \A b \in { MouseButtons[1], MouseButtons[2] } \ ReleasedButtons : ClickCalls(b) = {}
        /\ AllClickCalls # {} =>
              LET first == CHOOSE i \in AllClickCalls : \A j \in AllClickCalls : i <= j
                  final == CHOOSE i \in AllClickCalls : \A j \in AllClickCalls : j <= i
                  isClick(i) == last.calls[i].action \in { "MouseLeftClick", "MouseRightClick" }
              IN  /\ isClick(first) <=>
                         last.before.lastMouseClick + DoubleClickInterval < mouse.now
                  /\ mouse.lastMouseClick = IF isClick(final) THEN mouse.now ELSE ZeroTime
        /\ AllClickCalls = {} => mouse.lastMouseClick = last.before.lastMouseClick

\* A release within DoubleClickInterval of a recorded click fires up and then
\* the double click, and resets the record.
ClickDerivationWitness ==
    /\ pc = "mouse" /\ last.op = "mouse"
    /\ last.before.lastMouseClick # ZeroTime
    /\ mouse.now = last.before.lastMouseClick + DoubleClickInterval
    /\ last.calls = << [action |-> "MouseLeftUp", forwarded |-> TRUE],
                       [action |-> "MouseLeftDoubleClick", forwarded |-> TRUE] >>
    /\ mouse.lastMouseClick = ZeroTime

\* After a double click a further release, with no time passed, is a click.
ClickAfterDoubleClickWitness ==
    /\ pc = "mouse" /\ last.op = "mouse" /\ last.dclicked
    /\ last.before.lastMouseClick = ZeroTime /\ mouse.now = last.before.now
    /\ \E i \in 1..Len(last.calls) : last.calls[i].action = "MouseLeftClick"

\* A release away from the press fires the up action alone.
MovedReleaseWitness ==
    /\ pc = "mouse" /\ last.op = "mouse" /\ last.swallowAt = 0
    /\ last.ev.pos # last.before.mouseDown
    /\ last.calls = << [action |-> "MouseMove", forwarded |-> TRUE],
                       [action |-> "MouseRightUp", forwarded |-> TRUE] >>

\* The mouse capture swallows the up event of a release at the press position.
SwallowedReleaseWitness ==
    /\ pc = "mouse" /\ last.op = "mouse"
    /\ last.ev.pos = last.before.mouseDown
    /\ last.calls = << [action |-> "MouseLeftUp", forwarded |-> FALSE] >>

\* The mouse returns to the press position and is released in one event; the
\* capture swallows the event at its move action, and no click follows the up.
SwallowedMoveWitness ==
    /\ pc = "mouse" /\ last.op = "mouse" /\ last.swallowAt = 1
    /\ last.ev.pos = last.before.mouseDown
    /\ last.calls = << [action |-> "MouseMove", forwarded |-> FALSE],
                       [action |-> "MouseLeftUp", forwarded |-> FALSE] >>

\* Two buttons released at once, long after the last click: a click for the
\* first, a double click for the second.
TwoReleasesWitness ==
    /\ pc = "mouse" /\ last.op = "mouse"
    /\ \E i \in 1..Len(last.calls) : last.calls[i].action = "MouseLeftClick"
    /\ \E i \in 1..Len(last.calls) : last.calls[i].action = "MouseRightDoubleClick"

\* The items and buttons whose dirtyParent is the form's Box.
BoundToForm == { c \in Created(form) : form.prim[c].dirtyParent = "form" }

\* C38: whenever an item or button bound to the form is dirty, the form's
\* own Box dirty flag is set.
DirtyParentPropagation ==
    pc = "form" => \A c \in BoundToForm : form.prim[c].dirty => form.dirty

\* MarkDirty on a clean bound item of a clean form has set both flags.
DirtyParentPropagationWitness ==
    /\ pc = "form" /\ last.op = "MarkDirty" /\ last.child \in BoundToForm
    /\ ~last.before.dirty /\ ~last.before.prim[last.child].dirty
    /\ form.prim[last.child].dirty /\ form.dirty

\* Form.MarkClean has cleaned a dirty form with a dirty bound item and a
\* dirty bound button.
FormMarkCleanWitness ==
    /\ pc = "form" /\ last.op = "Form.MarkClean" /\ ~form.dirty
    /\ \E i \in FormItems, b \in FormButtons :
          /\ i \in BoundToForm /\ b \in BoundToForm
          /\ last.before.prim[i].dirty /\ last.before.prim[b].dirty

\* An item held twice stays bound when one of its entries is removed.
RemoveKeepsBoundWitness ==
    /\ pc = "form" /\ last.op = "RemoveFormItem" /\ last.child \in BoundToForm

\* An item of the form that another container has bound since is dirty while
\* the form is clean.
ReboundItemWitness ==
    /\ pc = "form" /\ ~form.dirty
    /\ \E c \in FormItems :
          SeqHas(form.items, c) /\ form.prim[c].dirty /\ form.prim[c].dirtyParent = "other"

\* The layers without the focus of their items: name and flags, back to front.
LayerOrder(ls) ==
    [i \in 1..Len(ls) |-> [name |-> ls[i].name, visible |-> ls[i].visible,
                           enabled |-> ls[i].enabled, overlay |-> ls[i].overlay]]

\* The layers of ls that bear the name, and those that do not, in their order.
Named(ls, name) == LET Is(x) == x.name = name IN SelectSeq(ls, Is)

NotNamed(ls, name) == LET IsNot(x) == x.name # name IN SelectSeq(ls, IsNot)

UniqueLayerNames(ls) ==
    \A i \in 1..Len(ls), j \in 1..Len(ls) : ls[i].name = ls[j].name => i = j

SendToFrontMovesWitness ==
    /\ pc = "layers" /\ last.op = "SendToFront" /\ last.index = 1
    /\ Len(layers.layers) = 2 /\ layers.layers[2].name = last.name

\* SendToBack has moved the front layer of two to the back.
SendToBackMovesWitness ==
    /\ pc = "layers" /\ last.op = "SendToBack" /\ last.index = 2
    /\ Len(layers.layers) = 2 /\ layers.layers[1].name = last.name

====
